---- MODULE Spec2Model ----
(***************************************************************************)
(* coinmon: concurrent multi-exchange spot price lookup.                   *)
(*                                                                         *)
(* The model follows internal/server/server.go (Server.firstPriceWithDetails*)
(* and Server.fetchPrice, the snapshot at lines 98-364) and                *)
(* internal/exchange/types.go.  One request is followed from the call of   *)
(* firstPriceWithDetails to its return; every adapter goroutine is a       *)
(* process of its own.                                                     *)
(*                                                                         *)
(* Representation.  TLC strings are atomic, so                             *)
(*   - a price is the pair <<m, d>> standing for m / 10^d (normalised),    *)
(*   - the text of a price field is kept with its characters (Chars),      *)
(*   - a JSON body is kept as its raw text together with the fields the    *)
(*     decoders read,                                                      *)
(*   - the error returned on total failure is kept as the document that     *)
(*     json.Marshal renders (message, errors), not as its rendered text.   *)
(***************************************************************************)
EXTENDS Integers, Sequences, FiniteSets, TLC

(***************************************************************************)
(* internal/exchange/types.go                                              *)
(***************************************************************************)
BINANCE == 0
BYBIT == 1
BITGET == 2

Names == {BINANCE, BYBIT, BITGET}

\* Mutant: two identifiers share a string.
NameStringShared(n) == <<"binance", "bybit", "bybit">>[n + 1]

\* func (n Name) String() string
NameString(n) == <<"binance", "bybit", "bitget">>[n + 1]

baseURLs == (BINANCE :> "https://api.binance.com") @@
            (BYBIT :> "https://api.bybit.com") @@
            (BITGET :> "https://api.bitget.com")

pricePaths == (BINANCE :> "api/v3/ticker/price") @@
              (BYBIT :> "v5/market/tickers") @@
              (BITGET :> "api/v2/spot/market/tickers")

\* m[name] of a Go map[Name]string: the zero value for a key that is not in
\* the map.
Lookup(m, name) == IF name \in DOMAIN m THEN m[name] ELSE ""

\* Mutant: New looks the path up and leaves the base URL empty.
NewWithoutBaseURL(name) ==
    [Name |-> name, BaseURL |-> "", PricePath |-> Lookup(pricePaths, name)]

\* func New(name Name) *Exchange
New(name) ==
    [Name |-> name, BaseURL |-> Lookup(baseURLs, name), PricePath |-> Lookup(pricePaths, name)]

\* Mutant: for Bybit the symbol comes before the category.
PriceURLSymbolFirst(e, pair) ==
    IF e.Name = BYBIT
    THEN e.BaseURL \o "/" \o e.PricePath \o "?symbol=" \o pair \o "&category=spot"
    ELSE e.BaseURL \o "/" \o e.PricePath \o "?symbol=" \o pair

\* func (e *Exchange) PriceURL(pair string) string
PriceURL(e, pair) ==
    IF e.Name = BYBIT
    THEN e.BaseURL \o "/" \o e.PricePath \o "?category=spot&symbol=" \o pair
    ELSE e.BaseURL \o "/" \o e.PricePath \o "?symbol=" \o pair

\* Mutant: PriceURL keeps the URL it built in its receiver.
AfterPriceURLKeepsURL(e, pair) == [e EXCEPT !.PricePath = PriceURL(e, pair)]

\* The receiver *Exchange after PriceURL: the method reads Name, BaseURL and
\* PricePath and assigns no field.
AfterPriceURL(e, pair) == e

(***************************************************************************)
(* server.New: the configured exchanges, in configuration order.           *)
(***************************************************************************)
exchanges == <<New(BINANCE), New(BYBIT), New(BITGET)>>

Idx == 1..Len(exchanges)

(***************************************************************************)
(* JSON values as the decoders see them.  t is the JSON type; a string     *)
(* keeps its text in s, a number its value in n, an array of ticker        *)
(* objects the values of their price field in l.                           *)
(***************************************************************************)
JAbsent == [t |-> "absent", n |-> 0, s |-> "", l |-> <<>>]
JNull == [t |-> "null", n |-> 0, s |-> "", l |-> <<>>]
JInt(n) == [t |-> "int", n |-> n, s |-> "", l |-> <<>>]
JStr(s) == [t |-> "str", n |-> 0, s |-> s, l |-> <<>>]
JObj == [t |-> "obj", n |-> 0, s |-> "", l |-> <<>>]
JList(l) == [t |-> "list", n |-> 0, s |-> "", l |-> l]

Keys == {"symbol", "price", "code", "msg", "retCode", "retMsg",
         "result", "result.list", "data"}

Fields(g) == [k \in Keys |-> IF k \in DOMAIN g THEN g[k] ELSE JAbsent]

\* encoding/json: a field of Go type int takes a JSON number; null and an
\* absent key leave the zero value; any other JSON type is an error.
IntField(v) == IF v.t = "int" THEN [err |-> FALSE, v |-> v.n]
               ELSE IF v.t \in {"absent", "null"} THEN [err |-> FALSE, v |-> 0]
               ELSE [err |-> TRUE, v |-> 0]

\* encoding/json: a field of Go type string takes a JSON string.
StrField(v) == IF v.t = "str" THEN [err |-> FALSE, v |-> v.s]
               ELSE IF v.t \in {"absent", "null"} THEN [err |-> FALSE, v |-> ""]
               ELSE [err |-> TRUE, v |-> ""]

\* encoding/json: a slice field takes a JSON array; each element is a ticker
\* object whose price field is a string field.
ListField(v) ==
    IF v.t = "list"
    THEN [err |-> \E k \in 1..Len(v.l) : StrField(v.l[k]).err,
          v |-> [k \in 1..Len(v.l) |-> StrField(v.l[k]).v]]
    ELSE IF v.t \in {"absent", "null"} THEN [err |-> FALSE, v |-> <<>>]
    ELSE [err |-> TRUE, v |-> <<>>]

\* encoding/json: a struct field takes a JSON object.
ObjField(v) == v.t \notin {"obj", "absent", "null"}

(***************************************************************************)
(* Prices.  A float64 price is <<m, d>>, the decimal m / 10^d with d as    *)
(* small as possible; every price text of the model is short enough for    *)
(* the conversion to be exact.                                             *)
(***************************************************************************)
Zero == <<0, 0>>

\* The float64 that is not a number.
NaN == <<0, -1>>

RECURSIVE Normalise(_, _)
Normalise(m, d) == IF d > 0 /\ m % 10 = 0 THEN Normalise(m \div 10, d - 1) ELSE <<m, d>>

Digits == {"0", "1", "2", "3", "4", "5", "6", "7", "8", "9"}

DigitVal(c) == CHOOSE v \in 0..9 : <<"0", "1", "2", "3", "4", "5", "6", "7", "8", "9">>[v + 1] = c

\* The characters of the price texts used by the model.
Chars(s) ==
    CASE s = "99999.99" -> <<"9", "9", "9", "9", "9", ".", "9", "9">>
      [] s = "99999.98" -> <<"9", "9", "9", "9", "9", ".", "9", "8">>
      [] s = "99999.97" -> <<"9", "9", "9", "9", "9", ".", "9", "7">>
      [] s = "1.50" -> <<"1", ".", "5", "0">>
      [] s = "-1.5" -> <<"-", "1", ".", "5">>
      [] s = "0" -> <<"0">>
      [] s = "." -> <<".">>
      [] s = "abc" -> <<"a", "b", "c">>
      [] s = "12a" -> <<"1", "2", "a">>
      [] s = "1.2.3" -> <<"1", ".", "2", ".", "3">>
      [] s = "BTCUSDT" -> <<"B", "T", "C", "U", "S", "D", "T">>
      [] s = "INVALID" -> <<"I", "N", "V", "A", "L", "I", "D">>
      [] s = "BTC\tUSDT" -> <<"B", "T", "C", "\t", "U", "S", "D", "T">>
      [] s = "NaN" -> <<"N", "a", "N">>
      [] s = "btcusdt" -> <<"b", "t", "c", "u", "s", "d", "t">>
      [] s = "BtcUsdt" -> <<"B", "t", "c", "U", "s", "d", "t">>
      [] s = " btcusdt " -> <<" ", "b", "t", "c", "u", "s", "d", "t", " ">>
      [] s = " BTCUSDT " -> <<" ", "B", "T", "C", "U", "S", "D", "T", " ">>
      [] s = "  " -> <<" ", " ">>
      [] s = "Bad Gateway" -> <<"B", "a", "d", " ", "G", "a", "t", "e", "w", "a", "y">>
      [] s = "" -> <<>>

\* The text made of the characters cs.
RECURSIVE Join(_)
Join(cs) == IF cs = <<>> THEN "" ELSE Head(cs) \o Join(Tail(cs))

\* net/url: stringContainsCTLByte
HasCTLByte(s) == \E k \in 1..Len(Chars(s)) : Chars(s)[k] \in {"\t", "\n", "\r"}

\* The inside of strconv.Quote on the characters of the model: a control character is
\* written as its escape.
Escaped(s) ==
    Join([k \in 1..Len(Chars(s)) |->
             CASE Chars(s)[k] = "\t" -> "\\t"
               [] Chars(s)[k] = "\n" -> "\\n"
               [] Chars(s)[k] = "\r" -> "\\r"
               [] OTHER -> Chars(s)[k]])

\* The digits of cs read as a decimal number, skipping the point.
RECURSIVE Mantissa(_, _)
Mantissa(cs, acc) ==
    IF cs = <<>> THEN acc
    ELSE IF Head(cs) = "." THEN Mantissa(Tail(cs), acc)
    ELSE Mantissa(Tail(cs), 10 * acc + DigitVal(Head(cs)))

\* Number of characters after the point (0 without a point).
RECURSIVE FracDigits(_)
FracDigits(cs) ==
    IF cs = <<>> THEN 0
    ELSE IF Head(cs) = "." THEN Len(cs) - 1
    ELSE FracDigits(Tail(cs))

\* strconv.ParseFloat(s, 64) on texts over digits, sign, point and letters:
\* the text "nan" in any case is the value NaN; any other text is an
\* optional sign, then digits with at most one point and at least one
\* digit.  Exponents, infinities and hexadecimal texts are not among the
\* texts of the model.
ParseFloat(s) ==
    LET cs == Chars(s)
        signed == cs # <<>> /\ Head(cs) \in {"+", "-"}
        body == IF signed THEN Tail(cs) ELSE cs
        points == {k \in 1..Len(body) : body[k] = "."}
        digits == {k \in 1..Len(body) : body[k] \in Digits}
        ok == /\ digits # {}
              /\ Cardinality(points) <= 1
              /\ Cardinality(points) + Cardinality(digits) = Len(body)
        m == Mantissa(body, 0)
    IN  IF Len(cs) = 3 /\ cs[1] \in {"n", "N"} /\ cs[2] \in {"a", "A"} /\ cs[3] \in {"n", "N"}
        THEN [err |-> FALSE, v |-> NaN, msg |-> ""]
        ELSE IF ok
        THEN [err |-> FALSE,
              v |-> Normalise(IF signed /\ Head(cs) = "-" THEN 0 - m ELSE m, FracDigits(body)),
              msg |-> ""]
        ELSE [err |-> TRUE, v |-> Zero,
              msg |-> "strconv.ParseFloat: parsing \"" \o s \o "\": invalid syntax"]

(***************************************************************************)
(* Response bodies: the raw text and what a JSON decoder finds in it.      *)
(* json is "object" for a JSON object, "null" for the text null and        *)
(* "invalid" for a text that is not JSON.                                  *)
(***************************************************************************)
Body(raw, kind, g) == [raw |-> raw, json |-> kind, f |-> Fields(g)]

\* mockSuccessfulResponse
BinanceOK == Body("{\"symbol\":\"BTCUSDT\",\"price\":\"99999.99\"}", "object",
                  ("symbol" :> JStr("BTCUSDT")) @@ ("price" :> JStr("99999.99")))
BybitOK == Body("{\"retCode\":0,\"retMsg\":\"OK\",\"result\":{\"category\":\"spot\",\"list\":[{\"symbol\":\"BTCUSDT\",\"lastPrice\":\"99999.98\"}]}}",
                "object",
                ("retCode" :> JInt(0)) @@ ("retMsg" :> JStr("OK")) @@ ("result" :> JObj) @@
                ("result.list" :> JList(<<JStr("99999.98")>>)))
BitgetOK == Body("{\"code\":\"00000\",\"msg\":\"success\",\"data\":[{\"symbol\":\"BTCUSDT\",\"lastPr\":\"99999.97\"}]}",
                 "object",
                 ("code" :> JStr("00000")) @@ ("msg" :> JStr("success")) @@
                 ("data" :> JList(<<JStr("99999.97")>>)))

\* mockInvalidPairResponse
BinanceInvalidPair ==
    Body("{\"code\":-1100,\"msg\":\"Illegal characters found in parameter 'symbol'; legal range is '^[A-Z0-9_.]{1,20}$'.\"}",
         "object",
         ("code" :> JInt(-1100)) @@
         ("msg" :> JStr("Illegal characters found in parameter 'symbol'; legal range is '^[A-Z0-9_.]{1,20}$'.")))
BybitInvalidPair ==
    Body("{\"retCode\":10001,\"retMsg\":\"Not supported symbols\",\"result\":{\"category\":\"\",\"list\":null}}",
         "object",
         ("retCode" :> JInt(10001)) @@ ("retMsg" :> JStr("Not supported symbols")) @@
         ("result" :> JObj) @@ ("result.list" :> JNull))
BitgetInvalidPair ==
    Body("{\"code\":\"40034\",\"msg\":\"Parameter does not exist\",\"data\":null}", "object",
         ("code" :> JStr("40034")) @@ ("msg" :> JStr("Parameter does not exist")) @@
         ("data" :> JNull))

\* A body that is not JSON (a proxy's error page).
NotJSON == Body("Bad Gateway", "invalid", <<>>)

SuccessBody(name) == CASE name = BINANCE -> BinanceOK
                       [] name = BYBIT -> BybitOK
                       [] name = BITGET -> BitgetOK

InvalidPairBody(name) == CASE name = BINANCE -> BinanceInvalidPair
                           [] name = BYBIT -> BybitInvalidPair
                           [] name = BITGET -> BitgetInvalidPair

(***************************************************************************)
(* What s.client.Do and io.ReadAll hand to fetchPrice.                     *)
(***************************************************************************)
StatusOK == 200
StatusBadRequest == 400

NoBody == Body("", "invalid", <<>>)

HTTP(status, body) == [kind |-> "http", status |-> status, body |-> body, msg |-> ""]
DoError(msg) == [kind |-> "doerr", status |-> 0, body |-> NoBody, msg |-> msg]
ReadError(msg) == [kind |-> "readerr", status |-> 0, body |-> NoBody, msg |-> msg]

(***************************************************************************)
(* Go errors: nil, or an error with its text.                              *)
(***************************************************************************)
Nil == [nil |-> TRUE, msg |-> ""]
Errorf(msg) == [nil |-> FALSE, msg |-> msg]

\* encoding/json, the error of json.Decoder.Decode for a body that is not
\* JSON.  The bodies of the model that are not JSON are empty or start with a
\* character no JSON value starts with: io.EOF, or the SyntaxError for that
\* first character.
SyntaxError(raw) ==
    IF raw = "" THEN "EOF"
    ELSE "invalid character '" \o Chars(raw)[1] \o "' looking for beginning of value"

\* encoding/json, UnmarshalTypeError.Value for a JSON value.
JSONWord(v) ==
    CASE v.t = "int" -> "number"
      [] v.t = "str" -> "string"
      [] v.t = "obj" -> "object"
      [] v.t = "list" -> "array"
      [] OTHER -> "null"

\* encoding/json, UnmarshalTypeError.Error(): the JSON value v does not fit
\* the field (its path of JSON names) of the struct type named struct, whose
\* Go type is type.  The name of an anonymous struct type is empty.
UnmarshalTypeError(v, struct, field, type) ==
    "json: cannot unmarshal " \o JSONWord(v) \o " into Go struct field "
        \o struct \o "." \o field \o " of type " \o type

\* reflect.Type.String() of the anonymous types of exchange.BybitResponse
\* and exchange.BitgetResponse.
BybitListType ==
    "[]struct { Symbol string \"json:\\\"symbol\\\"\"; LastPrice string \"json:\\\"lastPrice\\\"\" }"

BybitResultType ==
    "struct { Category string \"json:\\\"category\\\"\"; List " \o BybitListType \o " \"json:\\\"list\\\"\" }"

BitgetDataType ==
    "[]struct { Symbol string \"json:\\\"symbol\\\"\"; LastPr string \"json:\\\"lastPr\\\"\" }"

\* The error of decoding a slice field: the value is no array, or the price
\* field of an element (path elem, in an anonymous struct) is no string.
ListError(v, struct, field, type, elem) ==
    IF v.t # "list" THEN UnmarshalTypeError(v, struct, field, type)
    ELSE IF \A k \in 1..Len(v.l) : ~StrField(v.l[k]).err THEN ""
    ELSE LET bad == CHOOSE k \in 1..Len(v.l) :
                       /\ StrField(v.l[k]).err
                       /\ \A h \in 1..(k - 1) : ~StrField(v.l[h]).err
         IN  UnmarshalTypeError(v.l[bad], "", elem, "string")

\* encoding/json reports the first error it met: the first text of the
\* fields, a sequence of <<failed, text>> in the order of the keys in the
\* bodies of the model, whose field failed.
RECURSIVE FirstError(_)
FirstError(fs) ==
    IF fs = <<>> THEN ""
    ELSE IF Head(fs)[1] THEN Head(fs)[2]
    ELSE FirstError(Tail(fs))

(***************************************************************************)
(* The envelopes of internal/exchange and their decoding.                  *)
(***************************************************************************)
\* json.Unmarshal(body, &exchange.BinanceErrorResponse{})
DecodeBinanceError(b) ==
    LET code == IntField(b.f["code"])
        msg == StrField(b.f["msg"])
    IN  [err |-> b.json = "invalid" \/ code.err \/ msg.err, Code |-> code.v, Msg |-> msg.v]

\* Decode into exchange.BinanceResponse
DecodeBinance(b) ==
    LET symbol == StrField(b.f["symbol"])
        price == StrField(b.f["price"])
    IN  [err |-> b.json = "invalid" \/ symbol.err \/ price.err, Price |-> price.v,
         msg |-> IF b.json = "invalid" THEN SyntaxError(b.raw)
                 ELSE FirstError(<<
                    <<symbol.err, UnmarshalTypeError(b.f["symbol"], "BinanceResponse", "symbol", "string")>>,
                    <<price.err, UnmarshalTypeError(b.f["price"], "BinanceResponse", "price", "string")>> >>)]

\* Decode into exchange.BybitResponse
DecodeBybit(b) ==
    LET code == IntField(b.f["retCode"])
        msg == StrField(b.f["retMsg"])
        list == ListField(b.f["result.list"])
    IN  [err |-> b.json = "invalid" \/ code.err \/ msg.err \/ ObjField(b.f["result"]) \/ list.err,
         RetCode |-> code.v, RetMsg |-> msg.v,
         List |-> IF b.f["result"].t = "obj" THEN list.v ELSE <<>>,
         msg |-> IF b.json = "invalid" THEN SyntaxError(b.raw)
                 ELSE FirstError(<<
                    <<code.err, UnmarshalTypeError(b.f["retCode"], "BybitResponse", "retCode", "int")>>,
                    <<msg.err, UnmarshalTypeError(b.f["retMsg"], "BybitResponse", "retMsg", "string")>>,
                    <<ObjField(b.f["result"]),
                      UnmarshalTypeError(b.f["result"], "BybitResponse", "result", BybitResultType)>>,
                    <<list.err, ListError(b.f["result.list"], "", "result.list", BybitListType,
                                          "result.list.lastPrice")>> >>)]

\* Mutant: Bitget's tickers are looked for where Bybit keeps them.
DecodeBitgetAsBybit(b) ==
    LET code == StrField(b.f["code"])
        msg == StrField(b.f["msg"])
        data == ListField(b.f["result.list"])
    IN  [err |-> b.json = "invalid" \/ code.err \/ msg.err \/ data.err,
         Code |-> code.v, Msg |-> msg.v, Data |-> data.v,
         msg |-> IF b.json = "invalid" THEN SyntaxError(b.raw)
                 ELSE FirstError(<<
                    <<code.err, UnmarshalTypeError(b.f["code"], "BitgetResponse", "code", "string")>>,
                    <<msg.err, UnmarshalTypeError(b.f["msg"], "BitgetResponse", "msg", "string")>>,
                    <<data.err, ListError(b.f["result.list"], "BitgetResponse", "data", BitgetDataType,
                                          "data.lastPr")>> >>)]

\* Decode into exchange.BitgetResponse
DecodeBitget(b) ==
    LET code == StrField(b.f["code"])
        msg == StrField(b.f["msg"])
        data == ListField(b.f["data"])
    IN  [err |-> b.json = "invalid" \/ code.err \/ msg.err \/ data.err,
         Code |-> code.v, Msg |-> msg.v, Data |-> data.v,
         msg |-> IF b.json = "invalid" THEN SyntaxError(b.raw)
                 ELSE FirstError(<<
                    <<code.err, UnmarshalTypeError(b.f["code"], "BitgetResponse", "code", "string")>>,
                    <<msg.err, UnmarshalTypeError(b.f["msg"], "BitgetResponse", "msg", "string")>>,
                    <<data.err, ListError(b.f["data"], "BitgetResponse", "data", BitgetDataType,
                                          "data.lastPr")>> >>)]

\* Mutant: the fallback error leaves the body out.
UnexpectedStatusNoBody(status, b) ==
    Errorf("unexpected status code: " \o ToString(status))

\* fetchPrice, the branch for resp.StatusCode != http.StatusOK
UnexpectedStatus(status, b) ==
    Errorf("unexpected status code: " \o ToString(status) \o ", body: " \o b.raw)

\* Mutant: the exchange's error envelope is never decoded.
ErrorEnvelopeGeneric(name, status, b) == UnexpectedStatus(status, b)

ErrorEnvelope(name, status, b) ==
    CASE name = BINANCE ->
           LET r == DecodeBinanceError(b)
           IN  IF r.err THEN UnexpectedStatus(status, b)
               ELSE Errorf("code=" \o ToString(r.Code) \o ", msg=" \o r.Msg)
      [] name = BYBIT ->
           LET r == DecodeBybit(b)
           IN  IF r.err THEN UnexpectedStatus(status, b)
               ELSE Errorf("code=" \o ToString(r.RetCode) \o ", msg=" \o r.RetMsg)
      [] name = BITGET ->
           LET r == DecodeBitget(b)
           IN  IF r.err THEN UnexpectedStatus(status, b)
               ELSE Errorf("code=" \o r.Code \o ", msg=" \o r.Msg)
      [] OTHER -> Errorf("unexpected status code: " \o ToString(status))

\* Mutant: the error of strconv.ParseFloat is ignored.
ParsePriceIgnoreError(text) == [p |-> ParseFloat(text).v, e |-> Nil]

\* strconv.ParseFloat on the price field, wrapped as fetchPrice wraps it
ParsePrice(text) ==
    LET f == ParseFloat(text)
    IN  IF f.err THEN [p |-> Zero, e |-> Errorf("parse price: " \o f.msg)]
        ELSE [p |-> f.v, e |-> Nil]

\* Mutant: a list without a ticker yields the zero price and no error.
SuccessEnvelopeEmptyIsZero(name, b) ==
    CASE name = BINANCE ->
           LET r == DecodeBinance(b)
           IN  IF r.err THEN [p |-> Zero, e |-> Errorf("decode response: " \o r.msg)]
               ELSE ParsePrice(r.Price)
      [] name = BYBIT ->
           LET r == DecodeBybit(b)
           IN  IF r.err THEN [p |-> Zero, e |-> Errorf("decode response: " \o r.msg)]
               ELSE IF Len(r.List) = 0 THEN [p |-> Zero, e |-> Nil]
               ELSE ParsePrice(r.List[1])
      [] name = BITGET ->
           LET r == DecodeBitget(b)
           IN  IF r.err THEN [p |-> Zero, e |-> Errorf("decode response: " \o r.msg)]
               ELSE IF Len(r.Data) = 0 THEN [p |-> Zero, e |-> Nil]
               ELSE ParsePrice(r.Data[1])
      [] OTHER -> [p |-> Zero, e |-> Errorf("unknown exchange")]

\* fetchPrice, the branch for http.StatusOK
SuccessEnvelope(name, b) ==
    CASE name = BINANCE ->
           LET r == DecodeBinance(b)
           IN  IF r.err THEN [p |-> Zero, e |-> Errorf("decode response: " \o r.msg)]
               ELSE ParsePrice(r.Price)
      [] name = BYBIT ->
           LET r == DecodeBybit(b)
           IN  IF r.err THEN [p |-> Zero, e |-> Errorf("decode response: " \o r.msg)]
               ELSE IF Len(r.List) = 0 THEN [p |-> Zero, e |-> Errorf("empty response")]
               ELSE ParsePrice(r.List[1])
      [] name = BITGET ->
           LET r == DecodeBitget(b)
           IN  IF r.err THEN [p |-> Zero, e |-> Errorf("decode response: " \o r.msg)]
               ELSE IF Len(r.Data) = 0 THEN [p |-> Zero, e |-> Errorf("empty response")]
               ELSE ParsePrice(r.Data[1])
      [] OTHER -> [p |-> Zero, e |-> Errorf("unknown exchange")]

\* http.NewRequestWithContext(ctx, http.MethodGet, url, http.NoBody): url.Parse
\* rejects a URL that holds a control character.  The base URL and the path
\* hold none, so the URL holds one exactly when the pair does; the error
\* quotes the URL.
NewRequestError(e, pair) ==
    [err |-> HasCTLByte(pair),
     msg |-> "parse \"" \o PriceURL(e, Escaped(pair)) \o
             "\": net/url: invalid control character in URL"]

\* Mutant: every 2xx status takes the success branch.
fetchPriceAny2xx(e, pair, rsp) ==
    IF NewRequestError(e, pair).err
    THEN [p |-> Zero, e |-> Errorf("create request: " \o NewRequestError(e, pair).msg)]
    ELSE IF rsp.kind = "doerr" THEN [p |-> Zero, e |-> Errorf("do request: " \o rsp.msg)]
    ELSE IF rsp.kind = "readerr" THEN [p |-> Zero, e |-> Errorf("read body: " \o rsp.msg)]
    ELSE IF rsp.status \notin 200..299
    THEN [p |-> Zero, e |-> ErrorEnvelope(e.Name, rsp.status, rsp.body)]
    ELSE SuccessEnvelope(e.Name, rsp.body)

\* Mutant: an error of s.client.Do is dropped.
fetchPriceDropDoError(e, pair, rsp) ==
    IF NewRequestError(e, pair).err
    THEN [p |-> Zero, e |-> Errorf("create request: " \o NewRequestError(e, pair).msg)]
    ELSE IF rsp.kind = "doerr" THEN [p |-> Zero, e |-> Nil]
    ELSE IF rsp.kind = "readerr" THEN [p |-> Zero, e |-> Errorf("read body: " \o rsp.msg)]
    ELSE IF rsp.status # StatusOK
    THEN [p |-> Zero, e |-> ErrorEnvelope(e.Name, rsp.status, rsp.body)]
    ELSE SuccessEnvelope(e.Name, rsp.body)

\* func (s *Server) fetchPrice(ctx, e, pair) (float64, error), given what the
\* client returned for the request to e.PriceURL(pair)
fetchPrice(e, pair, rsp) ==
    IF NewRequestError(e, pair).err
    THEN [p |-> Zero, e |-> Errorf("create request: " \o NewRequestError(e, pair).msg)]
    ELSE IF rsp.kind = "doerr" THEN [p |-> Zero, e |-> Errorf("do request: " \o rsp.msg)]
    ELSE IF rsp.kind = "readerr" THEN [p |-> Zero, e |-> Errorf("read body: " \o rsp.msg)]
    ELSE IF rsp.status # StatusOK
    THEN [p |-> Zero, e |-> ErrorEnvelope(e.Name, rsp.status, rsp.body)]
    ELSE SuccessEnvelope(e.Name, rsp.body)

(***************************************************************************)
(* The environment of one request.                                         *)
(***************************************************************************)
\* Trading pairs a caller asks for.
Pairs == {"BTCUSDT", "INVALID"}

\* What the client may return to the adapter of exchange name: the exchange's
\* ticker, its rejection of the pair, a proxy's error page, a transport error.
RaceResponses(name) ==
    {HTTP(StatusOK, SuccessBody(name)),
     HTTP(StatusBadRequest, InvalidPairBody(name)),
     HTTP(502, NotJSON),
     DoError("context canceled")}

NoResponse == [kind |-> "none", status |-> 0, body |-> NoBody, msg |-> ""]

(***************************************************************************)
(* firstPriceWithDetails                                                   *)
(***************************************************************************)
VARIABLES
    pc,          \* coordinator: "idle" (not called), "running", "returned"
    pair,        \* the pair argument
    launched,    \* number of adapter goroutines started by the range loop
    task,        \* per goroutine: "idle", "fetching", "select", "published", "abandoned"
    resp,        \* per goroutine: what the client returned to its fetchPrice
    out,         \* per goroutine: p, e := s.fetchPrice(...)
    results,     \* the buffered channel results
    errors,      \* var errors []string
    i,           \* loop counter of the consuming loop
    cancelled,   \* cancel() of the derived context has been called
    parentDone,  \* the context passed in by the caller is done
    ret,         \* the returned (price, source, err)
    consumed,    \* history: the outcomes received from results, in order
    responded,   \* history: the goroutines in the order their fetchPrice returned
    doneAt,      \* history: number of responses when the caller's context ended, -1 if live
    sent,        \* history: the goroutines in the order they published
    returnedAt,  \* history: number of responses when the coordinator returned, -1 before
    req,         \* the request HandleSpot is serving: method, pair segment, details
    w,           \* the responses written to the http.ResponseWriter, in order
    handler,     \* HandleSpot: "idle" (no request), "race" (in the race), "done"
    urls,        \* per goroutine: url := e.PriceURL(pair) of its fetchPrice
    sExchanges,  \* the field exchanges of the Server
    other        \* a second call of firstPriceWithDetails, running at the same time

vars == <<pc, pair, launched, task, resp, out, results, errors, i, cancelled,
          parentDone, ret, consumed, responded, doneAt, sent, returnedAt, req, w, handler,
                   urls, sExchanges, other>>

\* No request is being served.
NoRequest == [method |-> "", seg |-> "", details |-> ""]

\* the error value returned by firstPriceWithDetails: nil, or the error whose
\* text is the JSON document {"message": ..., "errors": [...]}
NoError == [nil |-> TRUE, message |-> "", errors |-> <<>>]

\* errResp := errorResponse{...}; fmt.Errorf("%s", json.Marshal(errResp))
AggregateFailure(errs) ==
    [price |-> Zero, source |-> "",
     err |-> [nil |-> FALSE, message |-> "all exchanges failed", errors |-> errs]]

\* Mutant: the source reported is the first configured exchange.
SuccessReturnFirstConfigured(r) ==
    [price |-> r.price, source |-> NameString(exchanges[1].Name), err |-> NoError]

\* Mutant: the source is left out of the return.
SuccessReturnNoSource(r) == [price |-> r.price, source |-> "", err |-> NoError]

\* return r.price, r.source, nil
SuccessReturn(r) == [price |-> r.price, source |-> r.source, err |-> NoError]

\* Mutant: the channel is sized for all exchanges but two.
ResultsCapOne == Len(exchanges) - 2

\* results := make(chan result, len(s.exchanges))
ResultsCap == Len(exchanges)

\* Mutant: the consuming loop stops one outcome early.
LoopBoundShort == Len(exchanges) - 1

\* for i := 0; i < len(s.exchanges); i++
LoopBound == Len(exchanges)

\* Mutant: the outcome is labelled with the next exchange's identifier.
resultShifted(ex, o) ==
    [price |-> o.p, source |-> NameString((ex.Name + 1) % Len(exchanges)), err |-> o.e]

\* result{p, ex.Name.String(), e}
result(ex, o) == [price |-> o.p, source |-> NameString(ex.Name), err |-> o.e]

\* Mutant: the error of an outcome is never looked at.
IsErrorNever(r) == FALSE

\* if r.err != nil
IsError(r) == ~r.err.nil

\* errMsg := fmt.Sprintf("%s: %v", r.source, r.err)
ErrMsg(r) == r.source \o ": " \o r.err.msg

\* Mutant: ctx.Done() is closed from the start of the call.
CtxDoneFromStart == pc # "idle"

\* Mutant: ctx.Done() is never closed.
CtxDoneNever == FALSE

\* ctx, cancel := context.WithCancel(ctx): ctx.Done() is closed by cancel()
\* and by the end of the caller's context
CtxDone == cancelled \/ parentDone

NoOutcome == [p |-> Zero, e |-> Nil]
NoReturn == [price |-> Zero, source |-> "", err |-> NoError]

\* The locals of a request that has not arrived: the request, its response
\* and the position of its HandleSpot, and the locals of its call of
\* firstPriceWithDetails: the pair, the derived context, the channel, the
\* errors and the goroutines.
NoCall ==
    [pc |-> "idle", pair |-> "", launched |-> 0,
     task |-> [k \in Idx |-> "idle"], out |-> [k \in Idx |-> NoOutcome],
     results |-> <<>>, errors |-> <<>>, i |-> 0, cancelled |-> FALSE, ret |-> NoReturn,
     parentDone |-> FALSE, req |-> NoRequest, w |-> <<>>, handler |-> "idle"]

Init ==
    /\ pc = "idle"
    /\ pair = ""
    /\ launched = 0
    /\ task = [k \in Idx |-> "idle"]
    /\ resp = [k \in Idx |-> NoResponse]
    /\ out = [k \in Idx |-> NoOutcome]
    /\ results = <<>>
    /\ errors = <<>>
    /\ i = 0
    /\ cancelled = FALSE
    /\ parentDone = FALSE
    /\ ret = NoReturn
    /\ consumed = <<>>
    /\ responded = <<>>
    /\ doneAt = -1
    /\ sent = <<>>
    /\ returnedAt = -1
    /\ req = NoRequest
    /\ w = <<>>
    /\ handler = "idle"
    /\ urls = [k \in Idx |-> ""]
    /\ sExchanges = exchanges
    /\ other = NoCall

\* The call: the derived context and the channel are created.
Call(p) ==
    /\ pc = "idle"
    /\ pc' = "running"
    /\ pair' = p
    /\ UNCHANGED <<launched, task, resp, out, results, errors, i, cancelled,
                   parentDone, ret, consumed, responded, doneAt, sent, returnedAt, req, w, handler,
                   urls, sExchanges, other>>

\* One iteration of `for _, ex := range s.exchanges { go func(ex) {...}(ex) }`.
Launch ==
    /\ pc = "running"
    /\ launched < Len(exchanges)
    /\ launched' = launched + 1
    /\ task' = [task EXCEPT ![launched + 1] = "fetching"]
    /\ UNCHANGED <<pc, pair, resp, out, results, errors, i, cancelled,
                   parentDone, ret, consumed, responded, doneAt, sent, returnedAt, req, w, handler,
                   urls, sExchanges, other>>

\* Mutant: a goroutine whose call failed calls fetchPrice again.
AfterFetchRetry(o) == IF o.e.nil THEN "select" ELSE "fetching"

\* After its one call of fetchPrice a goroutine goes on to its select,
\* whatever the call returned.
AfterFetch(o) == "select"

\* Goroutine k: p, e := s.fetchPrice(ctx, ex, pair) returns.
FetchReturn(k, rsp) ==
    /\ task[k] = "fetching"
    /\ resp' = [resp EXCEPT ![k] = rsp]
    /\ urls' = [urls EXCEPT ![k] = PriceURL(sExchanges[k], pair)]
    /\ sExchanges' = [sExchanges EXCEPT ![k] = AfterPriceURL(sExchanges[k], pair)]
    /\ out' = [out EXCEPT ![k] = fetchPrice(sExchanges[k], pair, rsp)]
    /\ task' = [task EXCEPT ![k] = AfterFetch(out'[k])]
    /\ responded' = Append(responded, k)
    /\ UNCHANGED <<pc, pair, launched, results, errors, i, cancelled,
                   parentDone, ret, consumed, doneAt, sent, returnedAt, req, w, handler, other>>

\* Mutant: a goroutine that has published stays at its select.
PublishAndStay(k) ==
    /\ task[k] = "select"
    /\ Len(results) < ResultsCap
    /\ results' = Append(results, result(sExchanges[k], out[k]))
    /\ sent' = Append(sent, k)
    /\ UNCHANGED <<pc, pair, launched, task, resp, out, errors, i, cancelled,
                   parentDone, ret, consumed, responded, doneAt, returnedAt, req, w, handler,
                   urls, sExchanges, other>>

\* Goroutine k: select, case results <- result{p, ex.Name.String(), e}.
Publish(k) ==
    /\ task[k] = "select"
    /\ Len(results) < ResultsCap
    /\ results' = Append(results, result(sExchanges[k], out[k]))
    /\ task' = [task EXCEPT ![k] = "published"]
    /\ sent' = Append(sent, k)
    /\ UNCHANGED <<pc, pair, launched, resp, out, errors, i, cancelled,
                   parentDone, ret, consumed, responded, doneAt, returnedAt, req, w, handler,
                   urls, sExchanges, other>>

\* Goroutine k: select, case <-ctx.Done(): return.
Abandon(k) ==
    /\ task[k] = "select"
    /\ CtxDone
    /\ task' = [task EXCEPT ![k] = "abandoned"]
    /\ UNCHANGED <<pc, pair, launched, resp, out, results, errors, i, cancelled,
                   parentDone, ret, consumed, responded, doneAt, sent, returnedAt, req, w, handler,
                   urls, sExchanges, other>>

\* Mutant: only the last error is kept (the earlier lastErr design).
OnErrorLast(r) ==
    /\ errors' = <<ErrMsg(r)>>
    /\ i' = i + 1
    /\ IF i + 1 < LoopBound
       THEN UNCHANGED <<pc, ret, cancelled>>
       ELSE /\ pc' = "returned"
            /\ ret' = AggregateFailure(errors')
            /\ cancelled' = TRUE

\* Mutant: a new error goes to the front of errors.
OnErrorPrepend(r) ==
    /\ errors' = <<ErrMsg(r)>> \o errors
    /\ i' = i + 1
    /\ IF i + 1 < LoopBound
       THEN UNCHANGED <<pc, ret, cancelled>>
       ELSE /\ pc' = "returned"
            /\ ret' = AggregateFailure(errors')
            /\ cancelled' = TRUE

\* Mutant: the first error outcome fails the request.
OnErrorFailFast(r) ==
    /\ errors' = Append(errors, ErrMsg(r))
    /\ i' = i + 1
    /\ pc' = "returned"
    /\ ret' = AggregateFailure(errors')
    /\ cancelled' = TRUE

\* The loop body for an error outcome: record it and continue; when the loop
\* is exhausted the aggregate failure is returned (and the deferred cancel runs).
OnError(r) ==
    /\ errors' = Append(errors, ErrMsg(r))
    /\ i' = i + 1
    /\ IF i + 1 < LoopBound
       THEN UNCHANGED <<pc, ret, cancelled>>
       ELSE /\ pc' = "returned"
            /\ ret' = AggregateFailure(errors')
            /\ cancelled' = TRUE

\* Mutant: a success is remembered and the loop goes on to drain the channel.
OnSuccessKeepReading(r) ==
    /\ ret' = SuccessReturn(r)
    /\ i' = i + 1
    /\ pc' = IF i + 1 < LoopBound THEN "running" ELSE "returned"
    /\ cancelled' = (cancelled \/ i + 1 >= LoopBound)
    /\ UNCHANGED errors

\* Mutant: a success is returned and the derived context is left live.
OnSuccessNoCancel(r) ==
    /\ pc' = "returned"
    /\ ret' = SuccessReturn(r)
    /\ UNCHANGED <<errors, i, cancelled>>

\* The loop body for a success: cancel() and return.
OnSuccess(r) ==
    /\ cancelled' = TRUE
    /\ pc' = "returned"
    /\ ret' = SuccessReturn(r)
    /\ UNCHANGED <<errors, i>>

\* Mutant: the channel is still drained after the call has returned.
ConsumingAfterReturn == pc # "idle" /\ i < LoopBound

\* The consuming loop is entered when the range loop is done and is left by
\* its bound or by a return.
Consuming == pc = "running" /\ i < LoopBound

\* Mutant: the outcome is read and left on the channel.
ReceivePeek ==
    /\ Consuming
    /\ launched = Len(exchanges)
    /\ results # <<>>
    /\ results' = results
    /\ consumed' = Append(consumed, Head(results))
    /\ IF IsError(Head(results)) THEN OnError(Head(results)) ELSE OnSuccess(Head(results))
    /\ returnedAt' = IF pc # "returned" /\ pc' = "returned" THEN Len(responded) ELSE returnedAt
    /\ UNCHANGED <<pair, launched, task, resp, out, parentDone, responded, doneAt, sent,
                   req, w, handler,
                   urls, sExchanges, other>>

\* Coordinator: r := <-results and the loop body.
Receive ==
    /\ Consuming
    /\ launched = Len(exchanges)
    /\ results # <<>>
    /\ results' = Tail(results)
    /\ consumed' = Append(consumed, Head(results))
    /\ IF IsError(Head(results)) THEN OnError(Head(results)) ELSE OnSuccess(Head(results))
    /\ returnedAt' = IF pc # "returned" /\ pc' = "returned" THEN Len(responded) ELSE returnedAt
    /\ UNCHANGED <<pair, launched, task, resp, out, parentDone, responded, doneAt, sent,
                   req, w, handler,
                   urls, sExchanges, other>>

\* The caller's context ends (the HTTP client went away, a deadline passed).
ParentCancel ==
    /\ pc = "running"
    /\ ~parentDone
    /\ parentDone' = TRUE
    /\ doneAt' = Len(responded)
    /\ UNCHANGED <<pc, pair, launched, task, resp, out, results, errors, i,
                   cancelled, ret, consumed, responded, sent, returnedAt, req, w, handler,
                   urls, sExchanges, other>>

Next ==
    \/ \E p \in Pairs : Call(p)
    \/ Launch
    \/ \E k \in Idx : \E rsp \in RaceResponses(exchanges[k].Name) : FetchReturn(k, rsp)
    \/ \E k \in Idx : Publish(k)
    \/ \E k \in Idx : Abandon(k)
    \/ Receive
    \/ ParentCancel

Spec == Init /\ [][Next]_vars

(***************************************************************************)
(* Properties                                                              *)
(***************************************************************************)
SourceOf(k) == NameString(exchanges[k].Name)

Responded(k) == task[k] \in {"select", "published", "abandoned"}

Succeeded(k) == Responded(k) /\ out[k].e.nil
Failed(k) == Responded(k) /\ ~out[k].e.nil

\* C1: a call that has returned yields either (price, source, nil) with source
\* the identifier of a configured exchange, or (0, "", error) whose errors
\* list has exactly len(s.exchanges) entries; never both, never neither.
C1_ExactlyOneOutcome ==
    pc = "returned" =>
        LET success == /\ ret.err.nil
                       /\ \E k \in Idx : ret.source = SourceOf(k)
            failure == /\ ~ret.err.nil
                       /\ ret.price = Zero
                       /\ ret.source = ""
                       /\ ret.err.message = "all exchanges failed"
                       /\ Len(ret.err.errors) = Len(exchanges)
        IN  (success \/ failure) /\ ~(success /\ failure)

C1_Witness ==
    /\ pc = "returned"
    /\ ~ret.err.nil
    /\ Len(ret.err.errors) = Len(exchanges)

\* C2: the winner is the first consumed outcome whose err is nil: error
\* outcomes consumed before it do not end the race, and the returned price
\* and source both come from that one outcome, which is the outcome of the
\* exchange the source names.
C2_WinnerIsFirstSuccess ==
    /\ (pc = "returned" /\ ret.err.nil) =>
          LET n == Len(consumed)
          IN  /\ n >= 1
              /\ consumed[n].err.nil
              /\ \A j \in 1..(n - 1) : ~consumed[j].err.nil
              /\ ret.price = consumed[n].price
              /\ ret.source = consumed[n].source
              /\ \E k \in Idx : /\ ret.source = SourceOf(k)
                                /\ Succeeded(k)
                                /\ ret.price = out[k].p
    /\ (/\ pc # "idle"
        /\ Len(consumed) < Len(exchanges)
        /\ \A j \in 1..Len(consumed) : ~consumed[j].err.nil) => pc = "running"

C2_Witness ==
    /\ pc = "returned"
    /\ ret.err.nil
    /\ Len(consumed) = Len(exchanges)
    /\ ~consumed[1].err.nil

\* Every adapter call has returned, and returned a price.
AllSucceeded == \A k \in Idx : Succeeded(k)

\* C3 as stated: when all exchanges succeed, the exchange whose fetchPrice
\* call returned first is the one whose price and identifier are returned.
C3_FirstResponderWins ==
    (AllSucceeded /\ pc = "returned") =>
        /\ ret.source = SourceOf(responded[1])
        /\ ret.price = out[responded[1]].p

\* C3, amended: when all exchanges succeed, the price and identifier returned
\* are those of the exchange whose outcome was placed on the completion
\* channel first; and while an outcome has been placed and the call has not
\* returned, the coordinator has an outcome to consume.
C3_FirstPublishedWins ==
    AllSucceeded =>
        /\ pc = "returned" =>
              /\ sent # <<>>
              /\ ret.err.nil
              /\ ret.source = SourceOf(sent[1])
              /\ ret.price = out[sent[1]].p
        /\ (pc = "running" /\ sent # <<>>) => results # <<>>

\* All succeeded, and the winner is not the exchange that responded first.
C3_Witness ==
    /\ AllSucceeded
    /\ pc = "returned"
    /\ sent[1] # responded[1]
    /\ ret.source = SourceOf(sent[1])

\* C4: if exactly one exchange's fetchPrice succeeds and every other one
\* returns an error, the call returns the successful exchange's price and
\* identifier, whatever the order of the outcomes on the channel: once it has
\* returned the result is that one, and while all outcomes have been
\* published and it has not returned, it has an outcome to consume.
C4_SingleSuccessWins ==
    \A k \in Idx :
        (Succeeded(k) /\ \A h \in Idx \ {k} : Failed(h)) =>
            /\ pc = "returned" =>
                  /\ ret.err.nil
                  /\ ret.price = out[k].p
                  /\ ret.source = SourceOf(k)
            /\ (pc = "running" /\ \A h \in Idx : task[h] = "published") => results # <<>>

\* The single success was consumed last, after both errors.
C4_Witness ==
    \E k \in Idx :
        /\ Succeeded(k)
        /\ \A h \in Idx \ {k} : Failed(h)
        /\ pc = "returned"
        /\ Len(consumed) = Len(exchanges)
        /\ ret.source = SourceOf(k)

\* Every adapter call has returned, and returned an error.
AllFailed == \A k \in Idx : Failed(k)

\* C5: if every exchange's fetchPrice returns an error, the failure returned
\* has exactly one entry per configured exchange: for each exchange exactly
\* one entry is its identifier followed by its own error message, and there
\* is no other entry.
C5_EveryErrorOnce ==
    (AllFailed /\ pc = "returned") =>
        /\ ~ret.err.nil
        /\ Len(ret.err.errors) = Len(exchanges)
        /\ \A k \in Idx :
              Cardinality({j \in 1..Len(ret.err.errors) :
                              ret.err.errors[j] = SourceOf(k) \o ": " \o out[k].e.msg}) = 1

\* All failed, and the outcomes arrived in an order other than the configured one.
C5_Witness ==
    /\ AllFailed
    /\ pc = "returned"
    /\ ~ret.err.nil
    /\ sent # <<1, 2, 3>>
    /\ \E k, h \in Idx : k # h /\ out[k].e.msg # out[h].e.msg

\* The code and message fields of the error envelope of exchange name in body b.
NativeCode(name, b) ==
    CASE name = BINANCE -> ToString(IntField(b.f["code"]).v)
      [] name = BYBIT -> ToString(IntField(b.f["retCode"]).v)
      [] name = BITGET -> StrField(b.f["code"]).v

NativeMsg(name, b) ==
    CASE name = BINANCE -> StrField(b.f["msg"]).v
      [] name = BYBIT -> StrField(b.f["retMsg"]).v
      [] name = BITGET -> StrField(b.f["msg"]).v

\* "<identifier>: code=<code>, msg=<message>" for what exchange k answered
EnvelopeEntry(k) ==
    SourceOf(k) \o ": code=" \o NativeCode(exchanges[k].Name, resp[k].body)
                \o ", msg=" \o NativeMsg(exchanges[k].Name, resp[k].body)

\* Exchange k answered a status other than 200 with a body that decodes as
\* the envelope fetchPrice reads for it.
SentEnvelope(k) ==
    /\ resp[k].kind = "http"
    /\ resp[k].status # StatusOK
    /\ CASE exchanges[k].Name = BINANCE -> ~DecodeBinanceError(resp[k].body).err
         [] exchanges[k].Name = BYBIT -> ~DecodeBybit(resp[k].body).err
         [] exchanges[k].Name = BITGET -> ~DecodeBitget(resp[k].body).err

Entries == {ret.err.errors[j] : j \in 1..Len(ret.err.errors)}

\* C6 as stated: if all exchanges error, the failure has as many entries as
\* configured exchanges and each entry is "<identifier>: code=<code>,
\* msg=<message>" with that exchange's native code and message.
C6_EveryEntryIsEnvelope ==
    (AllFailed /\ pc = "returned") =>
        /\ Len(ret.err.errors) = Len(exchanges)
        /\ \A k \in Idx : EnvelopeEntry(k) \in Entries

\* C6, amended: if all exchanges error, the failure has as many entries as
\* configured exchanges; the entry of an exchange that answered a non-200
\* status with its decodable error envelope is "<identifier>: code=<code>,
\* msg=<message>" with its native code and message, and the entry of an
\* exchange that failed in any other way is "<identifier>: <its error text>".
C6_EnvelopeEntries ==
    (AllFailed /\ pc = "returned") =>
        /\ Len(ret.err.errors) = Len(exchanges)
        /\ \A k \in Idx :
              IF SentEnvelope(k)
              THEN EnvelopeEntry(k) \in Entries
              ELSE SourceOf(k) \o ": " \o out[k].e.msg \in Entries

\* The scenario of the tests: every exchange rejects the pair INVALID.
C6_Witness ==
    /\ pc = "returned"
    /\ pair = "INVALID"
    /\ \A k \in Idx : SentEnvelope(k)
    /\ Entries =
         {"binance: code=-1100, msg=Illegal characters found in parameter 'symbol'; legal range is '^[A-Z0-9_.]{1,20}$'.",
          "bybit: code=10001, msg=Not supported symbols",
          "bitget: code=40034, msg=Parameter does not exist"}

\* The coordinator waits on the channel and no goroutine is left to publish.
Stuck ==
    /\ pc = "running"
    /\ launched = Len(exchanges)
    /\ results = <<>>
    /\ \A k \in Idx : task[k] \in {"published", "abandoned"}

\* C7: if the caller's context is done before any exchange has responded,
\* the call still returns: it never waits for outcomes that the adapter
\* goroutines have abandoned.
C7_ReturnsAfterEarlyCancel == doneAt = 0 => ~Stuck

\* C8: a goroutine whose fetchPrice has returned terminates in one step, by
\* publishing or by abandoning: one of the two cases of its select is ready
\* in every state, also after the coordinator has returned.
C8_PublishNeverBlocks ==
    \A k \in Idx : task[k] = "select" => ENABLED (Publish(k) \/ Abandon(k))

\* A goroutine reaches its select after the coordinator has returned, with
\* outcomes left unread in the channel.
C8_Witness ==
    /\ pc = "returned"
    /\ \E k \in Idx : task[k] = "select"
    /\ \E k \in Idx : task[k] = "published" /\ Len(results) >= 1

\* C9: when the first successful outcome is consumed the scope is cancelled
\* and the call returns; nothing is consumed after it.
C9_ReturnsOnFirstSuccess ==
    \A j \in 1..Len(consumed) :
        consumed[j].err.nil =>
            /\ pc = "returned"
            /\ cancelled
            /\ j = Len(consumed)
            /\ ret = SuccessReturn(consumed[j])

\* The call has returned a price while the other adapter calls are in flight.
C9_Witness ==
    /\ pc = "returned"
    /\ ret.err.nil
    /\ Cardinality({k \in Idx : task[k] = "fetching"}) = Len(exchanges) - 1

\* C10: if the 200 response of one exchange, with a parseable price, is
\* consumed while the other exchanges are pending, the call returns that
\* exchange's price and identifier, and nothing the others produce later is
\* observed: the result, the consumed outcomes and the recorded errors stay
\* as they were at the return.
C10_LateOutcomesDiscarded ==
    \A k \in Idx :
        (/\ pc = "returned"
         /\ returnedAt = 1
         /\ responded[1] = k
         /\ resp[k].kind = "http" /\ resp[k].status = StatusOK) =>
            /\ ret = [price |-> out[k].p, source |-> SourceOf(k), err |-> NoError]
            /\ consumed = <<[price |-> out[k].p, source |-> SourceOf(k), err |-> Nil]>>
            /\ errors = <<>>
            /\ (resp[k].body = BinanceOK /\ exchanges[k].Name = BINANCE) =>
                  (ret.price = <<9999999, 2>> /\ ret.source = "binance")

\* Binance won while the others were pending; both have since produced an
\* outcome, one published and one abandoned, and the result is unchanged.
C10_Witness ==
    /\ pc = "returned"
    /\ returnedAt = 1
    /\ responded[1] = 1
    /\ ret = [price |-> <<9999999, 2>>, source |-> "binance", err |-> NoError]
    /\ Len(responded) = Len(exchanges)
    /\ \E k \in Idx : task[k] = "abandoned"
    /\ Len(results) = 1

\* Number of calls of fetchPrice made so far for exchange k: the calls that
\* have returned and the one in flight.
FetchCalls(k) ==
    Cardinality({j \in 1..Len(responded) : responded[j] = k})
        + (IF task[k] = "fetching" THEN 1 ELSE 0)

\* C11: a call launches exactly one adapter goroutine per configured exchange,
\* in configuration order, and each goroutine calls fetchPrice exactly once:
\* no exchange is queried twice, also after an error, and none is skipped
\* before the coordinator starts to consume.
C11_OneFetchPerExchange ==
    /\ \A k \in Idx : FetchCalls(k) = (IF k <= launched THEN 1 ELSE 0)
    /\ \A k \in Idx : (task[k] # "idle") <=> (k <= launched)
    /\ (consumed # <<>> \/ pc = "returned") => launched = Len(exchanges)

\* Every exchange has been queried and has failed, and the call has returned.
C11_Witness ==
    /\ pc = "returned"
    /\ AllFailed
    /\ \A k \in Idx : FetchCalls(k) = 1

\* C12: a failure is returned only after an error outcome of every configured
\* exchange has been consumed; while some exchange has succeeded or has not
\* answered yet, no failure is returned.
C12_FailureNeedsAllErrors ==
    (pc = "returned" /\ ~ret.err.nil) =>
        /\ Len(consumed) = Len(exchanges)
        /\ \A k \in Idx :
              /\ Failed(k)
              /\ \E j \in 1..Len(consumed) :
                    /\ consumed[j].source = SourceOf(k)
                    /\ ~consumed[j].err.nil
                    /\ consumed[j].err = out[k].e

\* Two exchanges have failed and their errors have been consumed, the third
\* has not answered: the call is still running.
C12_Witness ==
    /\ pc = "running"
    /\ Len(consumed) = Len(exchanges) - 1
    /\ Len(errors) = Len(exchanges) - 1
    /\ \E k \in Idx : task[k] = "fetching"

(***************************************************************************)
(* fetchPrice called on its own (as TestServer_fetchPrice calls it): one   *)
(* exchange, one pair, one answer of the client.                           *)
(***************************************************************************)
\* Pairs handed to fetchPrice, among them the empty pair of the tests and a
\* pair holding a tab.
FetchPairs == Pairs \cup {"", "BTC\tUSDT"}

\* The success envelope of exchange name carrying the price text.
PriceBody(name, text) ==
    CASE name = BINANCE ->
           Body("{\"symbol\":\"BTCUSDT\",\"price\":\"" \o text \o "\"}", "object",
                ("symbol" :> JStr("BTCUSDT")) @@ ("price" :> JStr(text)))
      [] name = BYBIT ->
           Body("{\"retCode\":0,\"retMsg\":\"OK\",\"result\":{\"category\":\"spot\",\"list\":[{\"symbol\":\"BTCUSDT\",\"lastPrice\":\""
                    \o text \o "\"}]}}",
                "object",
                ("retCode" :> JInt(0)) @@ ("retMsg" :> JStr("OK")) @@ ("result" :> JObj) @@
                ("result.list" :> JList(<<JStr(text)>>)))
      [] name = BITGET ->
           Body("{\"code\":\"00000\",\"msg\":\"success\",\"data\":[{\"symbol\":\"BTCUSDT\",\"lastPr\":\""
                    \o text \o "\"}]}",
                "object",
                ("code" :> JStr("00000")) @@ ("msg" :> JStr("success")) @@
                ("data" :> JList(<<JStr(text)>>)))

\* Price texts an exchange may send: numbers, a negative number, the text of
\* the float64 that is not a number, and texts that do not parse.
PriceTexts == {"99999.99", "99999.98", "99999.97", "1.50", "0", "-1.5", "NaN",
               "", "abc", "12a", "1.2.3", "."}

\* Envelopes without a ticker: an empty list, a null list, no list at all.
BybitEmptyList ==
    Body("{\"retCode\":0,\"retMsg\":\"OK\",\"result\":{\"category\":\"spot\",\"list\":[]}}", "object",
         ("retCode" :> JInt(0)) @@ ("retMsg" :> JStr("OK")) @@ ("result" :> JObj) @@
         ("result.list" :> JList(<<>>)))
BybitNoList ==
    Body("{\"retCode\":0,\"retMsg\":\"OK\",\"result\":{}}", "object",
         ("retCode" :> JInt(0)) @@ ("retMsg" :> JStr("OK")) @@ ("result" :> JObj))
BitgetEmptyData ==
    Body("{\"code\":\"00000\",\"msg\":\"success\",\"data\":[]}", "object",
         ("code" :> JStr("00000")) @@ ("msg" :> JStr("success")) @@ ("data" :> JList(<<>>)))

\* A ticker without its price field, a price that is a JSON number, an object
\* without any field of an envelope.
BinanceNoPrice == Body("{\"symbol\":\"BTCUSDT\"}", "object", "symbol" :> JStr("BTCUSDT"))
BinancePriceNumber ==
    Body("{\"symbol\":\"BTCUSDT\",\"price\":99999}", "object",
         ("symbol" :> JStr("BTCUSDT")) @@ ("price" :> JInt(99999)))
EmptyObject == Body("{}", "object", <<>>)

FetchBodies ==
    {PriceBody(name, text) : name \in Names, text \in PriceTexts}
        \cup {InvalidPairBody(name) : name \in Names}
        \cup {BybitEmptyList, BybitNoList, BitgetEmptyData, BitgetInvalidPair,
              BinanceNoPrice, BinancePriceNumber, EmptyObject, NotJSON, NoBody}

FetchStatuses == {200, 201, 204, 400, 502}

FetchResponses ==
    {HTTP(status, body) : status \in FetchStatuses, body \in FetchBodies}
        \cup {DoError("context deadline exceeded"), ReadError("unexpected EOF")}

InitFetch ==
    /\ pc = "fetch"
    /\ pair \in FetchPairs
    /\ launched = 0
    /\ task \in {[k \in Idx |-> IF k = h THEN "fetching" ELSE "idle"] : h \in Idx}
    /\ resp = [k \in Idx |-> NoResponse]
    /\ out = [k \in Idx |-> NoOutcome]
    /\ results = <<>>
    /\ errors = <<>>
    /\ i = 0
    /\ cancelled = FALSE
    /\ parentDone = FALSE
    /\ ret = NoReturn
    /\ consumed = <<>>
    /\ responded = <<>>
    /\ doneAt = -1
    /\ sent = <<>>
    /\ returnedAt = -1
    /\ req = NoRequest
    /\ w = <<>>
    /\ handler = "idle"
    /\ urls = [k \in Idx |-> ""]
    /\ sExchanges = exchanges
    /\ other = NoCall

NextFetch == \E k \in Idx : \E rsp \in FetchResponses : FetchReturn(k, rsp)

SpecFetch == InitFetch /\ [][NextFetch]_vars

\* The direct call of fetchPrice for exchange k has returned.
Fetched(k) == pc = "fetch" /\ task[k] = "select"

\* The request of the call was built and the client answered with a status.
Answered(k) == Fetched(k) /\ ~HasCTLByte(pair) /\ resp[k].kind = "http"

\* The status of the answer is one of the 2xx.
Is2xx(k) == resp[k].status \in 200..299

\* The body of the answer read as the success envelope of exchange k: whether
\* it decodes, and the tickers (their price texts) it holds.
Envelope(k) ==
    CASE exchanges[k].Name = BINANCE ->
           [err |-> DecodeBinance(resp[k].body).err, tickers |-> <<DecodeBinance(resp[k].body).Price>>]
      [] exchanges[k].Name = BYBIT ->
           [err |-> DecodeBybit(resp[k].body).err, tickers |-> DecodeBybit(resp[k].body).List]
      [] exchanges[k].Name = BITGET ->
           [err |-> DecodeBitget(resp[k].body).err, tickers |-> DecodeBitget(resp[k].body).Data]

\* The failure modes of one call.
RequestFailure(k) == Fetched(k) /\ HasCTLByte(pair)
TransportFailure(k) == Fetched(k) /\ ~HasCTLByte(pair) /\ resp[k].kind \in {"doerr", "readerr"}
StatusFailure(k) == Answered(k) /\ ~Is2xx(k)
DecodeFailure(k) == Answered(k) /\ Is2xx(k) /\ Envelope(k).err
EmptyFailure(k) == Answered(k) /\ Is2xx(k) /\ ~Envelope(k).err /\ Envelope(k).tickers = <<>>
ParseFailure(k) ==
    /\ Answered(k) /\ Is2xx(k) /\ ~Envelope(k).err /\ Envelope(k).tickers # <<>>
    /\ ParseFloat(Envelope(k).tickers[1]).err

FailureMode(k) ==
    \/ RequestFailure(k) \/ TransportFailure(k) \/ StatusFailure(k)
    \/ DecodeFailure(k) \/ EmptyFailure(k) \/ ParseFailure(k)

\* The call for exchange k returned (0, non-nil error), which the coordinator
\* takes for an error.
ErrorOutcome(k) ==
    /\ out[k].p = Zero
    /\ ~out[k].e.nil
    /\ IsError(result(exchanges[k], out[k]))

\* C13: every failure mode of one fetchPrice call (the request cannot be
\* built, the transport fails, the status is not a 2xx, the success envelope
\* does not decode, its list is empty, its price text is no number) ends as
\* a returned (0, non-nil error) that the coordinator takes for an error.
C13_FailuresAreErrorOutcomes ==
    \A k \in Idx : FailureMode(k) => ErrorOutcome(k)

\* A pair holding a tab: the request to Binance cannot be built.
C13_Witness ==
    /\ RequestFailure(1)
    /\ out[1].p = Zero
    /\ out[1].e = Errorf("create request: parse \"https://api.binance.com/api/v3/ticker/price?symbol=BTC\\tUSDT\": net/url: invalid control character in URL")

\* The call for exchange k returned what the branch for a status other than
\* http.StatusOK returns.
TookErrorPath(k) ==
    /\ out[k].p = Zero
    /\ ~out[k].e.nil
    /\ out[k].e = ErrorEnvelope(exchanges[k].Name, resp[k].status, resp[k].body)

\* The call for exchange k returned the price of the first ticker of the
\* success envelope, and no error.
ReturnedEnvelopePrice(k) ==
    /\ out[k].e.nil
    /\ out[k].p = ParseFloat(Envelope(k).tickers[1]).v

\* The answer carries the success envelope the exchange sends for BTCUSDT.
CarriesSuccessEnvelope(k) == resp[k].body = SuccessBody(exchanges[k].Name)

\* C14 as stated: the error-envelope path is taken exactly when the status is
\* not a 2xx; every 2xx status carrying the success envelope returns its
\* price, every other status returns an error.
C14_ErrorPathUnless2xx ==
    \A k \in Idx : Answered(k) =>
        /\ TookErrorPath(k) <=> ~Is2xx(k)
        /\ (Is2xx(k) /\ CarriesSuccessEnvelope(k)) => ReturnedEnvelopePrice(k)
        /\ ~Is2xx(k) => ~out[k].e.nil

\* What fetchPrice does where C14 fails: the error-envelope path is taken
\* exactly when the status is not 200; status 200 carrying the success envelope returns its price, and
\* every other status, the other 2xx included, returns an error.
C14_ErrorPathUnlessOK ==
    \A k \in Idx : Answered(k) =>
        /\ TookErrorPath(k) <=> resp[k].status # StatusOK
        /\ (resp[k].status = StatusOK /\ CarriesSuccessEnvelope(k)) => ReturnedEnvelopePrice(k)
        /\ resp[k].status # StatusOK => ~out[k].e.nil

\* Bybit answers 201 with its success envelope: the envelope is read as an
\* error envelope.
C14_Witness ==
    /\ Answered(2)
    /\ resp[2] = HTTP(201, BybitOK)
    /\ out[2] = [p |-> Zero, e |-> Errorf("code=0, msg=OK")]

\* C15: for a status other than 200, fetchPrice returns the error
\* "code=<code>, msg=<message>" with the exchange's native code and message
\* when the body decodes as the envelope read for that exchange, and
\* otherwise the error "unexpected status code: <status>, body: <raw body>".
C15_NativeErrorOrFallback ==
    \A k \in Idx : (Answered(k) /\ resp[k].status # StatusOK) =>
        /\ out[k].p = Zero
        /\ ~out[k].e.nil
        /\ out[k].e.msg =
              IF SentEnvelope(k)
              THEN "code=" \o NativeCode(exchanges[k].Name, resp[k].body)
                       \o ", msg=" \o NativeMsg(exchanges[k].Name, resp[k].body)
              ELSE "unexpected status code: " \o ToString(resp[k].status)
                       \o ", body: " \o resp[k].body.raw

\* A proxy answers 502 with a page that is not JSON on the way to Binance.
C15_Witness ==
    /\ Answered(1)
    /\ resp[1] = HTTP(502, NotJSON)
    /\ ~SentEnvelope(1)
    /\ out[1].e.msg = "unexpected status code: 502, body: Bad Gateway"

\* Exchange k is one of the two whose success envelope holds a list.
ListShaped(k) == exchanges[k].Name \in {BYBIT, BITGET}

\* The list of tickers in the body of the answer: a list, null, or absent.
\* For Bybit a list is read only inside an object "result".
TickerList(k) ==
    IF exchanges[k].Name = BYBIT THEN resp[k].body.f["result.list"] ELSE resp[k].body.f["data"]

NoTicker(k) ==
    \/ TickerList(k).t \in {"absent", "null"}
    \/ TickerList(k).t = "list" /\ TickerList(k).l = <<>>

\* C16: for Bybit and Bitget, a 200 answer whose success envelope decodes
\* but whose list (result.list / data) is empty, null or absent makes
\* fetchPrice return the error "empty response" and no price.
C16_EmptyListIsError ==
    \A k \in Idx :
        (Answered(k) /\ ListShaped(k) /\ resp[k].status = StatusOK
            /\ ~Envelope(k).err /\ NoTicker(k)) =>
                out[k] = [p |-> Zero, e |-> Errorf("empty response")]

\* Bitget answers 200 with an empty data list.
C16_Witness ==
    /\ Answered(3)
    /\ resp[3] = HTTP(StatusOK, BitgetEmptyData)
    /\ NoTicker(3)
    /\ out[3].e = Errorf("empty response")

\* Price texts that are no number: no digit, a letter, two points.
Malformed == {"", "abc", "12a", "1.2.3", "."}

\* The call for exchange k got a 200 answer whose envelope decodes and whose
\* first ticker carries the price text.
PriceTextIs(k, text) ==
    /\ Answered(k) /\ resp[k].status = StatusOK
    /\ ~Envelope(k).err
    /\ Envelope(k).tickers # <<>>
    /\ Envelope(k).tickers[1] = text

\* C17: when the price text of a success envelope is not a number (the
\* empty text of a missing field included), fetchPrice returns the error
\* "parse price: strconv.ParseFloat: parsing "<text>": invalid syntax",
\* which the coordinator takes for an error; it never returns price 0 with
\* no error.
C17_MalformedPriceIsError ==
    \A k \in Idx : \A text \in Malformed : PriceTextIs(k, text) =>
        /\ out[k].p = Zero
        /\ out[k].e = Errorf("parse price: strconv.ParseFloat: parsing \""
                                 \o text \o "\": invalid syntax")
        /\ IsError(result(exchanges[k], out[k]))

\* Binance answers 200 with a ticker that has no price field.
C17_Witness ==
    /\ PriceTextIs(1, "")
    /\ resp[1] = HTTP(StatusOK, BinanceNoPrice)
    /\ out[1].e = Errorf("parse price: strconv.ParseFloat: parsing \"\": invalid syntax")

\* C18 as stated: whenever fetchPrice returns a price with no error, the
\* price is not negative, whatever price text the exchange sent.
C18_PriceNonNegative ==
    \A k \in Idx : (Fetched(k) /\ out[k].e.nil) => out[k].p[1] >= 0

\* The text of the price field of exchange name in body b: price for
\* Binance, result.list[0].lastPrice for Bybit, data[0].lastPr for Bitget.
PriceField(name, b) ==
    CASE name = BINANCE -> b.f["price"].s
      [] name = BYBIT -> b.f["result.list"].l[1].s
      [] name = BITGET -> b.f["data"].l[1].s

\* The value of the price texts of the model that are numbers.
ValueOf(text) ==
    CASE text = "99999.99" -> <<9999999, 2>>
      [] text = "99999.98" -> <<9999998, 2>>
      [] text = "99999.97" -> <<9999997, 2>>
      [] text = "1.50" -> <<15, 1>>
      [] text = "0" -> <<0, 0>>
      [] text = "-1.5" -> <<-15, 1>>
      [] text = "NaN" -> NaN

\* C19: for each exchange, a 200 answer carrying that exchange's own success
\* envelope with a price text that is a number makes fetchPrice return no
\* error and the value of the envelope's price field (price for Binance,
\* result.list[0].lastPrice for Bybit, data[0].lastPr for Bitget); the shape
\* read depends on the exchange's Name only: not on the pair, and not on
\* the body, so that another exchange's success envelope yields an error.
C19_PriceOfOwnEnvelope ==
    /\ \A k \in Idx : \A text \in PriceTexts \ Malformed :
          (Answered(k) /\ resp[k] = HTTP(StatusOK, PriceBody(exchanges[k].Name, text))) =>
              /\ PriceField(exchanges[k].Name, resp[k].body) = text
              /\ out[k] = [p |-> ValueOf(text), e |-> Nil]
    /\ \A k \in Idx : \A name \in Names \ {exchanges[k].Name} :
          (Answered(k) /\ resp[k] = HTTP(StatusOK, SuccessBody(name))) => ErrorOutcome(k)

\* Bitget answers 200 with the ticker of the tests, for a pair other than the
\* ticker's.
C19_Witness ==
    /\ Answered(3)
    /\ pair = "INVALID"
    /\ resp[3] = HTTP(StatusOK, BitgetOK)
    /\ out[3] = [p |-> <<9999997, 2>>, e |-> Nil]

(***************************************************************************)
(* HandleSpot: one request to /api/v1/spot/{pair}.  The request is its     *)
(* method, the part of the path after "/api/v1/spot/" and the value of the *)
(* query parameter details ("" when absent).  Writes to the                *)
(* http.ResponseWriter succeed.                                            *)
(***************************************************************************)
MethodGet == "GET"
StatusMethodNotAllowed == 405
StatusInternalServerError == 500
StatusServiceUnavailable == 503

LowerCase == <<"a", "b", "c", "d", "e", "f", "g", "h", "i", "j", "k", "l", "m",
               "n", "o", "p", "q", "r", "s", "t", "u", "v", "w", "x", "y", "z">>
UpperCase == <<"A", "B", "C", "D", "E", "F", "G", "H", "I", "J", "K", "L", "M",
               "N", "O", "P", "Q", "R", "S", "T", "U", "V", "W", "X", "Y", "Z">>

Upper(c) ==
    IF \E j \in 1..Len(LowerCase) : LowerCase[j] = c
    THEN UpperCase[CHOOSE j \in 1..Len(LowerCase) : LowerCase[j] = c]
    ELSE c

\* Mutant: the pair is passed on as it came.
ToUpperAsIs(s) == s

\* strings.ToUpper
ToUpper(s) == Join([k \in 1..Len(Chars(s)) |-> Upper(Chars(s)[k])])

RECURSIVE Pow10(_)
Pow10(n) == IF n = 0 THEN 1 ELSE 10 * Pow10(n - 1)

\* The last width decimal digits of n.
RECURSIVE PadZeros(_, _)
PadZeros(n, width) ==
    IF width = 0 THEN "" ELSE PadZeros(n \div 10, width - 1) \o ToString(n % 10)

Abs(m) == IF m < 0 THEN 0 - m ELSE m

\* fmt.Fprintf(w, "%f", price): six digits after the point.
FormatF(p) ==
    IF p = NaN THEN "NaN"
    ELSE (IF p[1] < 0 THEN "-" ELSE "")
             \o ToString(Abs(p[1]) \div Pow10(p[2])) \o "."
             \o PadZeros(Abs(p[1]) % Pow10(p[2]), p[2]) \o PadZeros(0, 6 - p[2])

\* encoding/json on a float64 of the model: the shortest decimal text.
FormatJSON(p) ==
    (IF p[1] < 0 THEN "-" ELSE "")
        \o ToString(Abs(p[1]) \div Pow10(p[2]))
        \o (IF p[2] = 0 THEN "" ELSE "." \o PadZeros(Abs(p[1]) % Pow10(p[2]), p[2]))

\* encoding/json on a string of the model; none holds a character that is
\* escaped.
Quoted(s) == "\"" \o s \o "\""

RECURSIVE JoinQuoted(_)
JoinQuoted(ss) ==
    IF ss = <<>> THEN ""
    ELSE IF Len(ss) = 1 THEN Quoted(ss[1])
    ELSE Quoted(ss[1]) \o "," \o JoinQuoted(Tail(ss))

\* err.Error() of the failure of firstPriceWithDetails: string(b) of
\* json.Marshal(errorResponse{Message, Errors})
ErrorText(err) ==
    "{\"message\":" \o Quoted(err.message) \o ",\"errors\":"
        \o (IF err.errors = <<>> THEN "null" ELSE "[" \o JoinQuoted(err.errors) \o "]")
        \o "}"

\* http.Error(w, text, code)
Error(text, code) ==
    [status |-> code, contentType |-> "text/plain; charset=utf-8", body |-> text \o "\n"]

\* json.NewEncoder(w).Encode(DetailedResponse{Pair, Price, Source}); a price
\* that is not a number cannot be encoded, nothing is written and the
\* handler answers with http.Error.
Detailed(p, r) ==
    IF r.price = NaN
    THEN Error("Internal server error", StatusInternalServerError)
    ELSE [status |-> StatusOK, contentType |-> "application/json",
          body |-> "{\"pair\":" \o Quoted(p) \o ",\"price\":" \o FormatJSON(r.price)
                       \o ",\"source\":" \o Quoted(r.source) \o "}\n"]

\* fmt.Fprintf(w, "%f", price)
Plain(r) == [status |-> StatusOK, contentType |-> "text/plain", body |-> FormatF(r.price)]

\* Mutant: the failure of the race is written with status 200.
RenderFailureAsOK(isDetailed, p, r) ==
    IF ~r.err.nil THEN [status |-> StatusOK, contentType |-> "text/plain; charset=utf-8",
                        body |-> ErrorText(r.err) \o "\n"]
    ELSE IF isDetailed THEN Detailed(p, r)
    ELSE Plain(r)

\* HandleSpot after firstPriceWithDetails has returned r for pair p.
Render(isDetailed, p, r) ==
    IF ~r.err.nil THEN Error(ErrorText(r.err), StatusServiceUnavailable)
    ELSE IF isDetailed THEN Detailed(p, r)
    ELSE Plain(r)

\* Mutant: the pair is checked before the method.
HandleSpotPairFirst(method, seg, details) ==
    /\ handler = "idle"
    /\ pc = "idle"
    /\ req' = [method |-> method, seg |-> seg, details |-> details]
    /\ IF seg = ""
       THEN /\ w' = Append(w, Error("Missing trading pair", StatusBadRequest))
            /\ handler' = "done"
            /\ UNCHANGED <<pc, pair>>
       ELSE IF method # MethodGet
       THEN /\ w' = Append(w, Error("Method not allowed", StatusMethodNotAllowed))
            /\ handler' = "done"
            /\ UNCHANGED <<pc, pair>>
       ELSE /\ pair' = ToUpper(seg)
            /\ pc' = "running"
            /\ handler' = "race"
            /\ UNCHANGED w
    /\ UNCHANGED <<launched, task, resp, out, results, errors, i, cancelled,
                   parentDone, ret, consumed, responded, doneAt, sent, returnedAt,
                   urls, sExchanges, other>>

\* HandleSpot up to its call of firstPriceWithDetails.
HandleSpot(method, seg, details) ==
    /\ handler = "idle"
    /\ pc = "idle"
    /\ req' = [method |-> method, seg |-> seg, details |-> details]
    /\ IF method # MethodGet
       THEN /\ w' = Append(w, Error("Method not allowed", StatusMethodNotAllowed))
            /\ handler' = "done"
            /\ UNCHANGED <<pc, pair>>
       ELSE IF seg = ""
       THEN /\ w' = Append(w, Error("Missing trading pair", StatusBadRequest))
            /\ handler' = "done"
            /\ UNCHANGED <<pc, pair>>
       ELSE /\ pair' = ToUpper(seg)
            /\ pc' = "running"
            /\ handler' = "race"
            /\ UNCHANGED w
    /\ UNCHANGED <<launched, task, resp, out, results, errors, i, cancelled,
                   parentDone, ret, consumed, responded, doneAt, sent, returnedAt,
                   urls, sExchanges, other>>

\* HandleSpot from the return of firstPriceWithDetails to its own return.
Respond ==
    /\ handler = "race"
    /\ pc = "returned"
    /\ w' = Append(w, Render(req.details = "true", pair, ret))
    /\ handler' = "done"
    /\ UNCHANGED <<pc, pair, launched, task, resp, out, results, errors, i, cancelled,
                   parentDone, ret, consumed, responded, doneAt, sent, returnedAt, req,
                   urls, sExchanges, other>>

\* The requests of the model.
Methods == {"GET", "POST"}
Segments == {"", "btcusdt", "INVALID", " btcusdt ", "  "}
DetailsValues == {"", "true", "false"}

\* What the client may return to the adapter of exchange name while a
\* request is served: the ticker of the tests, the rejection of the pair, a
\* ticker whose price text is NaN.
HandleResponses(name) ==
    {HTTP(StatusOK, SuccessBody(name)),
     HTTP(StatusBadRequest, InvalidPairBody(name)),
     HTTP(StatusOK, PriceBody(name, "NaN"))}

NextHandle ==
    \/ \E method \in Methods : \E seg \in Segments : \E details \in DetailsValues :
          HandleSpot(method, seg, details)
    \/ Launch
    \/ \E k \in Idx : \E rsp \in HandleResponses(exchanges[k].Name) : FetchReturn(k, rsp)
    \/ \E k \in Idx : Publish(k)
    \/ \E k \in Idx : Abandon(k)
    \/ Receive
    \/ ParentCancel
    \/ Respond

SpecHandle == Init /\ [][NextHandle]_vars

\* HandleSpot has returned.
Handled == handler = "done"

\* The request got as far as the race and the race returned.
Raced == Handled /\ req.method = MethodGet /\ req.seg # "" /\ pc = "returned"

\* Parts of C20 that hold as stated: at most one response is ever written
\* and exactly one by the time HandleSpot has returned; a method other than
\* GET gives 405, GET with an empty pair segment gives 400, GET with a
\* failed race gives 503 with the text of the aggregate failure and a line
\* end as the body.
OneResponse ==
    /\ Len(w) = (IF Handled THEN 1 ELSE 0)
    /\ Handled =>
         /\ req.method # MethodGet => w[1].status = StatusMethodNotAllowed
         /\ (req.method = MethodGet /\ req.seg = "") => w[1].status = StatusBadRequest
         /\ (req.method = MethodGet /\ req.seg # "") => Raced
         /\ (Raced /\ ~ret.err.nil) =>
               /\ AllFailed
               /\ ret.err.errors = errors
               /\ w[1].status = StatusServiceUnavailable
               /\ w[1].body = ErrorText(AggregateFailure(errors).err) \o "\n"

\* C20 as stated: 405 for a method other than GET, 400 for GET with an empty
\* pair segment, 503 with the aggregate failure as the body for GET with a
\* failed race, 200 for GET with a race that succeeds; exactly one response
\* per request.
C20_FourStatuses ==
    /\ OneResponse
    /\ (Raced /\ ret.err.nil) => w[1].status = StatusOK

\* What HandleSpot does where C20 fails: a race that succeeds gives 200
\* unless details is "true" and the price cannot be encoded as JSON (it is
\* not a number), which gives 500 with the body "Internal server error".
C20_StatusOfOutcome ==
    /\ OneResponse
    /\ (Raced /\ ret.err.nil) =>
          IF req.details = "true" /\ ret.price = NaN
          THEN w[1] = Error("Internal server error", StatusInternalServerError)
          ELSE w[1].status = StatusOK

\* GET /api/v1/spot/INVALID, every exchange rejects the pair, the outcomes
\* arrive in configuration order.
C20_Witness ==
    /\ Raced
    /\ req = [method |-> "GET", seg |-> "INVALID", details |-> ""]
    /\ w = <<[status |-> 503, contentType |-> "text/plain; charset=utf-8",
              body |-> "{\"message\":\"all exchanges failed\",\"errors\":[\"binance: code=-1100, msg=Illegal characters found in parameter 'symbol'; legal range is '^[A-Z0-9_.]{1,20}$'.\",\"bybit: code=10001, msg=Not supported symbols\",\"bitget: code=40034, msg=Parameter does not exist\"]}\n"]>>

\* The race of the request succeeded and HandleSpot has returned.
RaceWon == Raced /\ ret.err.nil

\* The JSON object {pair, price, source} of the request, with a line end.
DetailedBody ==
    "{\"pair\":" \o Quoted(ToUpper(req.seg)) \o ",\"price\":" \o FormatJSON(ret.price)
        \o ",\"source\":" \o Quoted(ret.source) \o "}\n"

\* C21 as stated: on a successful race HandleSpot writes the JSON object
\* {pair, price, source} exactly when details is "true", with the upper-cased
\* pair and the price and source the race returned; for any other value of
\* details, or none, it writes the price as plain text with six decimals.
C21_DetailsSelectsRendering ==
    RaceWon =>
        IF req.details = "true"
        THEN /\ w[1].status = StatusOK
             /\ w[1].contentType = "application/json"
             /\ w[1].body = DetailedBody
        ELSE /\ w[1].status = StatusOK
             /\ w[1].contentType = "text/plain"
             /\ w[1].body = FormatF(ret.price)

\* What HandleSpot does where C21 fails: the rendering is as stated for
\* every price that is a number; a price that is not a number is written as
\* the plain text "NaN", and with details "true" it is not written at all.
C21_RenderingOfNumbers ==
    RaceWon =>
        IF req.details = "true"
        THEN IF ret.price = NaN
             THEN w[1] = Error("Internal server error", StatusInternalServerError)
             ELSE w[1] = [status |-> StatusOK, contentType |-> "application/json",
                          body |-> DetailedBody]
        ELSE w[1] = [status |-> StatusOK, contentType |-> "text/plain",
                     body |-> IF ret.price = NaN THEN "NaN" ELSE FormatF(ret.price)]

\* GET /api/v1/spot/btcusdt?details=true won by Binance with the ticker of
\* the tests.
C21_Witness ==
    /\ RaceWon
    /\ req = [method |-> "GET", seg |-> "btcusdt", details |-> "true"]
    /\ w = <<[status |-> 200, contentType |-> "application/json",
              body |-> "{\"pair\":\"BTCUSDT\",\"price\":99999.99,\"source\":\"binance\"}\n"]>>

\* C22: the URL fetchPrice builds is BaseURL, "/", PricePath and the query:
\* "?category=spot&symbol=<pair>" for Bybit, "?symbol=<pair>" for every
\* other exchange, with the pair as given (empty, or holding a tab, too).
C22_PriceURLShape ==
    \A k \in Idx : Fetched(k) =>
        /\ urls[k] = exchanges[k].BaseURL \o "/" \o exchanges[k].PricePath
                        \o (IF exchanges[k].Name = BYBIT THEN "?category=spot&symbol="
                            ELSE "?symbol=") \o pair
        /\ urls[k] = <<"https://api.binance.com/api/v3/ticker/price?symbol=",
                       "https://api.bybit.com/v5/market/tickers?category=spot&symbol=",
                       "https://api.bitget.com/api/v2/spot/market/tickers?symbol=">>[k] \o pair

\* The URL of the tests for Bybit and BTCUSDT.
C22_Witness ==
    /\ Fetched(2)
    /\ pair = "BTCUSDT"
    /\ urls[2] = "https://api.bybit.com/v5/market/tickers?category=spot&symbol=BTCUSDT"

(***************************************************************************)
(* exchange.New as the program calls it: server.New builds the directory   *)
(* with New(BINANCE), New(BYBIT), New(BITGET), in that order, before any   *)
(* request is served; the calls of firstPriceWithDetails follow.           *)
(***************************************************************************)
InitNew ==
    /\ pc = "new"
    /\ pair = ""
    /\ launched = 0
    /\ task = [k \in Idx |-> "idle"]
    /\ resp = [k \in Idx |-> NoResponse]
    /\ out = [k \in Idx |-> NoOutcome]
    /\ results = <<>>
    /\ errors = <<>>
    /\ i = 0
    /\ cancelled = FALSE
    /\ parentDone = FALSE
    /\ ret = NoReturn
    /\ consumed = <<>>
    /\ responded = <<>>
    /\ doneAt = -1
    /\ sent = <<>>
    /\ returnedAt = -1
    /\ req = NoRequest
    /\ w = <<>>
    /\ handler = "idle"
    /\ urls = [k \in Idx |-> ""]
    /\ sExchanges = <<>>
    /\ other = NoCall

\* exchanges := []*exchange.Exchange{exchange.New(exchange.BINANCE),
\*     exchange.New(exchange.BYBIT), exchange.New(exchange.BITGET)}
ServerNew ==
    /\ pc = "new"
    /\ pc' = "idle"
    /\ sExchanges' = <<New(BINANCE), New(BYBIT), New(BITGET)>>
    /\ UNCHANGED <<pair, launched, task, resp, out, results, errors, i, cancelled,
                   parentDone, ret, consumed, responded, doneAt, sent, returnedAt,
                   req, w, handler, urls, other>>

NextNew == ServerNew \/ Next

SpecNew == InitNew /\ [][NextNew]_vars

\* The Exchanges made so far.
Made == {sExchanges[j] : j \in 1..Len(sExchanges)}

\* The fixed values of TestNew.
Configured ==
    {[Name |-> BINANCE, BaseURL |-> "https://api.binance.com", PricePath |-> "api/v3/ticker/price"],
     [Name |-> BYBIT, BaseURL |-> "https://api.bybit.com", PricePath |-> "v5/market/tickers"],
     [Name |-> BITGET, BaseURL |-> "https://api.bitget.com",
      PricePath |-> "api/v2/spot/market/tickers"]}

\* C23: exchange.New is pure and total over BINANCE, BYBIT, BITGET: for each
\* of them it returns an Exchange whose Name is the identifier given and
\* whose BaseURL and PricePath are that identifier's fixed values, the same
\* on every call; it fails for none of them, so a failure, if any, is on an
\* identifier outside the set. The directory server.New builds is the three
\* Exchanges with the fixed values in the order BINANCE, BYBIT, BITGET, and
\* no Exchange is ever made for another identifier or with an empty field.
C23_NewTotalOnConfigured ==
    /\ \A n \in Names : New(n).Name = n /\ New(n) \in Configured
    /\ \A e \in Made :
          /\ e.Name \in Names
          /\ e \in Configured
          /\ e = New(e.Name)
    /\ pc # "new" =>
          sExchanges =
              <<[Name |-> BINANCE, BaseURL |-> "https://api.binance.com",
                 PricePath |-> "api/v3/ticker/price"],
                [Name |-> BYBIT, BaseURL |-> "https://api.bybit.com",
                 PricePath |-> "v5/market/tickers"],
                [Name |-> BITGET, BaseURL |-> "https://api.bitget.com",
                 PricePath |-> "api/v2/spot/market/tickers"]>>

\* server.New has made the three Exchanges and a call has since asked every
\* one of them for a price.
C23_Witness ==
    /\ pc = "returned"
    /\ Made = Configured
    /\ \A k \in Idx : sExchanges[k] = New(exchanges[k].Name) /\ urls[k] # ""

\* The goroutine whose outcome the coordinator returned: the one published
\* at the position of the last outcome consumed.
Winner == sent[Len(consumed)]

\* C24: Name.String gives "binance" for BINANCE, "bybit" for BYBIT and
\* "bitget" for BITGET, three different strings, so the source of every
\* outcome names the exchange it came from and the source returned by a
\* successful race names the winner and no other exchange.
C24_SourceNamesWinner ==
    /\ \A j \in 1..Len(results) :
          results[j].source \in {"binance", "bybit", "bitget"}
    /\ \A j \in 1..Len(consumed) :
          /\ consumed[j].source = <<"binance", "bybit", "bitget">>[sent[j]]
          /\ exchanges[sent[j]].Name = <<BINANCE, BYBIT, BITGET>>[sent[j]]
    /\ (pc = "returned" /\ ret.err.nil) =>
          /\ ret.source = <<"binance", "bybit", "bitget">>[Winner]
          /\ ret.price = out[Winner].p
          /\ \A k \in Idx \ {Winner} : SourceOf(k) # ret.source

\* Bitget wins the race.
C24_Witness ==
    /\ pc = "returned"
    /\ ret.err.nil
    /\ Winner = 3
    /\ ret.source = "bitget"
    /\ ret.price = <<9999997, 2>>

\* The position of goroutine k among the returns of fetchPrice.
Pos(k) == CHOOSE j \in 1..Len(responded) : responded[j] = k

\* The scope was already cancelled when the fetchPrice of goroutine k
\* returned: the coordinator had returned, or the caller's context had ended.
LateAfterReturn(k) == Responded(k) /\ returnedAt >= 0 /\ Pos(k) > returnedAt
LateAfterDone(k) == Responded(k) /\ doneAt >= 0 /\ Pos(k) > doneAt
Late(k) == LateAfterReturn(k) \/ LateAfterDone(k)

\* C25 as stated: if the scope is already cancelled when the fetchPrice of
\* an adapter task returns, the task discards its outcome; no outcome is
\* placed on the channel after the cancellation.
C25_NoPublishAfterCancel ==
    \A k \in Idx : Late(k) => task[k] # "published"

\* C25, amended: if the scope is already cancelled when the fetchPrice of an
\* adapter task returns, the task may discard its outcome or place it on the
\* channel (both cases of its select are ready, and the send does not
\* block); an outcome placed after the coordinator has returned stays on
\* the channel and is never consumed.
C25_LatePublishIsHarmless ==
    \A k \in Idx :
        /\ (Late(k) /\ task[k] = "select") => (ENABLED Publish(k) /\ ENABLED Abandon(k))
        /\ Late(k) => task[k] \in {"select", "published", "abandoned"}
        /\ (LateAfterReturn(k) /\ task[k] = "published") =>
              /\ \E j \in 1..Len(results) : results[j] = result(exchanges[k], out[k])
              /\ \A j \in 1..Len(consumed) : sent[j] # k

\* Binance won; Bybit's fetchPrice returned after that and its goroutine
\* still published, Bitget's goroutine returned through ctx.Done().
C25_Witness ==
    /\ pc = "returned"
    /\ returnedAt = 1
    /\ responded = <<1, 2, 3>>
    /\ LateAfterReturn(2) /\ task[2] = "published"
    /\ LateAfterReturn(3) /\ task[3] = "abandoned"
    /\ results = <<result(exchanges[2], out[2])>>

\* The outcome goroutine k produced, as the value it sends.
Produced(k) == [price |-> out[k].p, source |-> SourceOf(k), err |-> out[k].e]

\* How often the coordinator consumed the outcome of goroutine k.
TimesConsumed(k) == Cardinality({j \in 1..Len(consumed) : sent[j] = k})

\* The request is over: the coordinator has returned and every goroutine has
\* ended.
Quiet == pc = "returned" /\ \A k \in Idx : task[k] \in {"published", "abandoned"}

\* C26 as stated: every outcome produced by an adapter task of a request is
\* consumed exactly once by the coordinator, never zero times and never
\* twice, and is the same when consumed as when produced.
C26_ConsumedExactlyOnce ==
    /\ \A j \in 1..Len(consumed) : consumed[j] = Produced(sent[j])
    /\ Quiet => \A k \in Idx : TimesConsumed(k) = 1

\* C26, amended: every outcome is consumed at most once and is the same
\* when consumed as when produced; the outcomes are consumed in the order
\* they were published and the channel holds the published outcomes not yet
\* consumed; an outcome whose goroutine returned through ctx.Done(), or that
\* was still unread when the coordinator returned, is consumed zero times;
\* if the call returns a failure every outcome was consumed exactly once.
C26_ConsumedAtMostOnce ==
    /\ Len(consumed) <= Len(sent)
    /\ \A j \in 1..Len(consumed) : consumed[j] = Produced(sent[j])
    /\ results = [j \in 1..(Len(sent) - Len(consumed)) |-> Produced(sent[Len(consumed) + j])]
    /\ \A k \in Idx :
          /\ TimesConsumed(k) <= 1
          /\ Cardinality({j \in 1..Len(sent) : sent[j] = k}) =
                (IF task[k] = "published" THEN 1 ELSE 0)
          /\ task[k] = "abandoned" => TimesConsumed(k) = 0
    /\ (pc = "returned" /\ ret.err.nil) =>
          \A j \in 1..Len(sent) : j > Len(consumed) => TimesConsumed(sent[j]) = 0
    /\ (pc = "returned" /\ ~ret.err.nil) => \A k \in Idx : TimesConsumed(k) = 1

\* Bybit won; Binance published later and is never read, Bitget returned
\* through ctx.Done().
C26_Witness ==
    /\ Quiet
    /\ ret.source = "bybit"
    /\ TimesConsumed(2) = 1
    /\ task[1] = "published" /\ TimesConsumed(1) = 0
    /\ task[3] = "abandoned" /\ TimesConsumed(3) = 0

\* C27: in the aggregate failure the entries are in the order in which the
\* coordinator consumed the error outcomes (the order of arrival on the
\* channel): the j-th entry is "<source>: <error>" of the j-th consumed
\* outcome, whatever the position of that exchange in s.exchanges.
C27_EntriesInArrivalOrder ==
    /\ \A j \in 1..Len(errors) :
          errors[j] = consumed[j].source \o ": " \o consumed[j].err.msg
    /\ (pc = "returned" /\ ~ret.err.nil) =>
          /\ Len(ret.err.errors) = Len(consumed)
          /\ \A j \in 1..Len(consumed) :
                ret.err.errors[j] = consumed[j].source \o ": " \o consumed[j].err.msg
          /\ \A j \in 1..Len(consumed) :
                ret.err.errors[j] = SourceOf(sent[j]) \o ": " \o out[sent[j]].e.msg

\* Every exchange rejects the pair and the outcomes arrive in the order
\* Bitget, Binance, Bybit.
C27_Witness ==
    /\ pc = "returned"
    /\ sent = <<3, 1, 2>>
    /\ ret.err.errors =
          <<"bitget: code=40034, msg=Parameter does not exist",
            "binance: code=-1100, msg=Illegal characters found in parameter 'symbol'; legal range is '^[A-Z0-9_.]{1,20}$'.",
            "bybit: code=10001, msg=Not supported symbols">>

\* Every exchange answered 200 with the ticker of mockSuccessfulResponse.
AllTickers ==
    \A k \in Idx : Responded(k) /\ resp[k] = HTTP(StatusOK, SuccessBody(exchanges[k].Name))

\* C28 as stated: when every exchange responds successfully and none is
\* delayed, the call returns the price and identifier of the first
\* configured exchange, (99999.99, "binance").
C28_FirstConfiguredWins ==
    (AllTickers /\ pc = "returned") =>
        ret = [price |-> <<9999999, 2>>, source |-> "binance", err |-> NoError]

\* What the call does where C28 fails: when every exchange responds
\* successfully it returns no error and the price and identifier of one of the exchanges, the one
\* whose goroutine published first: (99999.99, "binance"), (99999.98,
\* "bybit") or (99999.97, "bitget"); without delays none of them is excluded.
C28_AnyExchangeWins ==
    (AllTickers /\ pc = "returned") =>
        /\ ret \in {[price |-> <<9999999, 2>>, source |-> "binance", err |-> NoError],
                    [price |-> <<9999998, 2>>, source |-> "bybit", err |-> NoError],
                    [price |-> <<9999997, 2>>, source |-> "bitget", err |-> NoError]}
        /\ ret.source = <<"binance", "bybit", "bitget">>[sent[1]]

\* Every exchange answered with its ticker, Binance's fetchPrice returned
\* first, and the call returned Bitget's price.
C28_Witness ==
    /\ AllTickers
    /\ pc = "returned"
    /\ responded[1] = 1
    /\ ret = [price |-> <<9999997, 2>>, source |-> "bitget", err |-> NoError]

\* The characters cs without the blanks at their start.
RECURSIVE TrimLeft(_)
TrimLeft(cs) == IF cs # <<>> /\ Head(cs) = " " THEN TrimLeft(Tail(cs)) ELSE cs

\* The characters cs without the blanks at their end.
RECURSIVE TrimRight(_)
TrimRight(cs) ==
    IF cs # <<>> /\ cs[Len(cs)] = " " THEN TrimRight(SubSeq(cs, 1, Len(cs) - 1)) ELSE cs

\* The text s without the blanks around it.
Trimmed(s) == Join(TrimRight(TrimLeft(Chars(s))))

\* The request went past the checks of method and pair.
PairAccepted == handler \in {"race", "done"} /\ req.method = MethodGet /\ pc # "idle"

\* C29 as stated: the pair handed to the race, which is in every URL built
\* for an exchange, is the pair segment of the request without the blanks
\* around it and in upper case; a segment of blanks only is answered as a
\* missing pair.
C29_PairTrimmedAndUpper ==
    /\ PairAccepted =>
          /\ pair = ToUpper(Trimmed(req.seg))
          /\ \A k \in Idx : Responded(k) => urls[k] = PriceURL(exchanges[k], pair)
    /\ (Handled /\ req.method = MethodGet /\ Trimmed(req.seg) = "") =>
          w[1] = Error("Missing trading pair", StatusBadRequest)

\* C29, amended: the pair handed to the race, which is in every URL built
\* for an exchange, is the pair segment of the request in upper case, with
\* any blanks around it kept; only the empty segment is answered as a
\* missing pair, a segment of blanks only is raced like any other pair.
C29_PairUpperOnly ==
    /\ PairAccepted =>
          /\ req.seg # ""
          /\ pair = (CASE req.seg = "btcusdt" -> "BTCUSDT"
                       [] req.seg = "INVALID" -> "INVALID"
                       [] req.seg = " btcusdt " -> " BTCUSDT "
                       [] req.seg = "  " -> "  ")
          /\ \A k \in Idx : Responded(k) => urls[k] = PriceURL(exchanges[k], pair)
    /\ (Handled /\ req.method = MethodGet) =>
          (w[1] = Error("Missing trading pair", StatusBadRequest) <=> req.seg = "")

\* GET /api/v1/spot/%20btcusdt%20: Binance is asked for the pair with its
\* blanks.
C29_Witness ==
    /\ PairAccepted
    /\ req.seg = " btcusdt "
    /\ pair = " BTCUSDT "
    /\ Responded(1)
    /\ urls[1] = "https://api.binance.com/api/v3/ticker/price?symbol= BTCUSDT "

(***************************************************************************)
(* Termination of firstPriceWithDetails                                    *)
(***************************************************************************)
\* The steps of a call whose caller never cancels the context it passed in.
NextLive ==
    \/ \E p \in Pairs : Call(p)
    \/ Launch
    \/ \E k \in Idx : \E rsp \in RaceResponses(exchanges[k].Name) : FetchReturn(k, rsp)
    \/ \E k \in Idx : Publish(k)
    \/ \E k \in Idx : Abandon(k)
    \/ Receive

\* The Go scheduler runs every goroutine that can run: the coordinator's
\* range loop and receive, and each goroutine's select; every HTTP call
\* returns.
Fairness ==
    /\ WF_vars(Launch)
    /\ WF_vars(Receive)
    /\ \A k \in Idx : WF_vars(\E rsp \in RaceResponses(exchanges[k].Name) : FetchReturn(k, rsp))
    /\ \A k \in Idx : WF_vars(Publish(k) \/ Abandon(k))

SpecLive == Init /\ [][NextLive]_vars /\ Fairness

\* Every goroutine of the call has been launched and has ended.
AllTerminated == \A k \in Idx : task[k] \in {"published", "abandoned"}

\* C31: when every HTTP call returns and the caller's context is never
\* cancelled, a call of firstPriceWithDetails leads to its return, with a
\* price or with the aggregate failure, and to the end of every goroutine
\* it launched.
C31_CallTerminates ==
    /\ (pc = "running") ~> (pc = "returned" /\ (ret.err.nil \/ Len(ret.err.errors) = Len(exchanges)))
    /\ (pc = "running") ~> AllTerminated

\* The call has returned, a goroutine's fetchPrice returned after that, and
\* every goroutine has ended.
C31_Witness ==
    /\ pc = "returned"
    /\ ~parentDone
    /\ AllTerminated
    /\ returnedAt < Len(responded)

\* The number of outcomes goroutine k has published.
TimesPublished(k) == Cardinality({j \in 1..Len(sent) : sent[j] = k})

\* The goroutines that left their select through ctx.Done().
Abandoned == {k \in Idx : task[k] = "abandoned"}

\* C32: in every state of a call the channel holds at most len(s.exchanges)
\* outcomes, each goroutine has published at most one outcome, and the
\* published and abandoned outcomes together are at most the goroutines
\* launched.
C32_ChannelBounded ==
    /\ Len(results) <= Len(exchanges)
    /\ \A k \in Idx : TimesPublished(k) <= 1
    /\ \A k \in Idx : TimesPublished(k) = 1 <=> task[k] = "published"
    /\ Len(sent) + Cardinality(Abandoned) <= launched

\* Every goroutine has published before the coordinator received anything:
\* the channel is full.
C32_Witness ==
    /\ Len(results) = Len(exchanges)
    /\ \A k \in Idx : task[k] = "published"
    /\ consumed = <<>>

\* C33: on every return of firstPriceWithDetails, with the first success or
\* with the aggregate failure, the derived context has been cancelled: a
\* goroutine that reaches its select after the return finds ctx.Done()
\* closed, whatever the caller's context is.
C33_CancelledOnReturn ==
    pc = "returned" =>
        /\ cancelled
        /\ CtxDone
        /\ \A k \in Idx : task[k] = "select" => ENABLED Abandon(k)

\* The call has returned a price under a live caller context and a goroutine
\* of the call is at its select.
C33_Witness ==
    /\ pc = "returned"
    /\ ret.err.nil
    /\ ~parentDone
    /\ cancelled
    /\ \E k \in Idx : task[k] = "select"

\* The call has returned the aggregate failure under a live caller context:
\* the deferred cancel has run.
C33_FailureWitness ==
    /\ pc = "returned"
    /\ ~ret.err.nil
    /\ ~parentDone
    /\ cancelled

\* The request was answered with 405 or 400.
Rejected == Handled /\ Len(w) >= 1 /\ w[1].status \in {StatusMethodNotAllowed, StatusBadRequest}

\* No goroutine was launched and no URL was built: no exchange was contacted.
NoExchangeContacted ==
    /\ pc = "idle"
    /\ launched = 0
    /\ \A k \in Idx : task[k] = "idle" /\ urls[k] = "" /\ resp[k] = NoResponse
    /\ responded = <<>>

\* C35: HandleSpot checks the method before the pair: a request that is not
\* a GET is answered 405, also when its pair is empty, and a GET with an
\* empty pair is answered 400; a request answered 405 or 400 is one of
\* these two, and no exchange is contacted for it.
C35_MethodBeforePair ==
    /\ (Handled /\ req.method # MethodGet) =>
          w = <<Error("Method not allowed", StatusMethodNotAllowed)>>
    /\ (Handled /\ req.method = MethodGet /\ req.seg = "") =>
          w = <<Error("Missing trading pair", StatusBadRequest)>>
    /\ Rejected => (req.method # MethodGet \/ req.seg = "") /\ NoExchangeContacted

\* A POST without a pair has been answered 405.
C35_Witness ==
    /\ Handled
    /\ req.method = "POST"
    /\ req.seg = ""
    /\ w[1].status = StatusMethodNotAllowed
    /\ NoExchangeContacted

\* The answer to the call for exchange k carries a success envelope of that
\* exchange whose price text parses.
CarriesValidPrice(k) ==
    /\ ~Envelope(k).err
    /\ Envelope(k).tickers # <<>>
    /\ ~ParseFloat(Envelope(k).tickers[1]).err

\* C36: for an answer whose status is not 200, whatever its body, fetchPrice
\* returns the price 0 and an error; a body that is the exchange's success
\* envelope with a price that parses makes no difference.
C36_NoPriceUnlessOK ==
    \A k \in Idx :
        (Answered(k) /\ resp[k].status # StatusOK) =>
            /\ ~out[k].e.nil
            /\ out[k].p = Zero
            /\ result(exchanges[k], out[k]).err # Nil

\* Binance answers 204 with its ticker for BTCUSDT: the call returns an error
\* and no price.
C36_Witness ==
    /\ Answered(1)
    /\ resp[1] = HTTP(204, BinanceOK)
    /\ CarriesValidPrice(1)
    /\ out[1].p = Zero
    /\ ~out[1].e.nil

\* The body answered to the call for exchange k is a JSON object with the
\* code and message fields of that exchange's error envelope.
HasErrorEnvelope(k) ==
    LET b == resp[k].body
        name == exchanges[k].Name
    IN  /\ b.json = "object"
        /\ IF name = BYBIT
           THEN b.f["retCode"].t # "absent" /\ b.f["retMsg"].t # "absent"
           ELSE b.f["code"].t # "absent" /\ b.f["msg"].t # "absent"

\* C37: for a status other than 200, every body that does not carry the
\* exchange's error envelope is reported by the fallback error "unexpected
\* status code: <status>, body: <raw body>"; a JSON body without the
\* envelope's code and message fields is not reported as an exchange error
\* with a zero or empty code and an empty message.
C37_FallbackWithoutEnvelope ==
    \A k \in Idx :
        (Answered(k) /\ resp[k].status # StatusOK /\ ~HasErrorEnvelope(k)) =>
            out[k] = [p |-> Zero, e |-> UnexpectedStatus(resp[k].status, resp[k].body)]

\* What the code does with the body {} under a status other than 200: the
\* body decodes, and the error carries the zero values of the envelope's
\* fields.
C37_EmptyObjectIsEnvelope ==
    \A k \in Idx :
        (Answered(k) /\ resp[k].status # StatusOK /\ resp[k].body = EmptyObject) =>
            out[k] = [p |-> Zero,
                      e |-> Errorf("code=" \o (IF exchanges[k].Name = BITGET THEN "" ELSE "0") \o ", msg=")]

(***************************************************************************)
(* Two requests at the same time: net/http runs HandleSpot for each in a   *)
(* goroutine of its own.  The locals of the second request and of its call *)
(* are the fields of other; the Server is shared.                          *)
(***************************************************************************)
\* What belongs to the first call and to its request.
first == <<pc, pair, launched, task, resp, out, results, errors, i, cancelled, parentDone,
           ret, consumed, responded, doneAt, sent, returnedAt, req, w, handler, urls>>

\* What an exchange answers when asked for pair p: its ticker for BTCUSDT,
\* its rejection for a pair it does not list.
Answer(name, p) ==
    IF p = "BTCUSDT" THEN HTTP(StatusOK, SuccessBody(name))
    ELSE HTTP(StatusBadRequest, InvalidPairBody(name))

\* The requests of two handlers running at the same time: the first asks
\* for a pair no exchange lists or for none, the second for any pair.
FirstSegments == {"", "INVALID"}
TwoSegments == {"", "btcusdt", "INVALID"}
TwoDetails == {"true"}

\* HandleSpot of the second request, up to its call of
\* firstPriceWithDetails: ctx, cancel := context.WithCancel(ctx) and
\* results := make(chan result, len(s.exchanges)).
OtherHandleSpot(method, seg, details) ==
    /\ other.handler = "idle"
    /\ other.pc = "idle"
    /\ other' =
         IF method # MethodGet
         THEN [other EXCEPT !.req = [method |-> method, seg |-> seg, details |-> details],
                            !.w = Append(other.w, Error("Method not allowed", StatusMethodNotAllowed)),
                            !.handler = "done"]
         ELSE IF seg = ""
         THEN [other EXCEPT !.req = [method |-> method, seg |-> seg, details |-> details],
                            !.w = Append(other.w, Error("Missing trading pair", StatusBadRequest)),
                            !.handler = "done"]
         ELSE [other EXCEPT !.req = [method |-> method, seg |-> seg, details |-> details],
                            !.pair = ToUpper(seg), !.pc = "running", !.handler = "race"]
    /\ UNCHANGED <<first, sExchanges>>

\* HandleSpot of the second request, from the return of its
\* firstPriceWithDetails to its own return.
OtherRespond ==
    /\ other.handler = "race"
    /\ other.pc = "returned"
    /\ other' = [other EXCEPT !.w = Append(other.w, Render(other.req.details = "true", other.pair, other.ret)),
                              !.handler = "done"]
    /\ UNCHANGED <<first, sExchanges>>

\* The second call: one iteration of its range loop.
OtherLaunch ==
    /\ other.pc = "running"
    /\ other.launched < Len(exchanges)
    /\ other' = [other EXCEPT !.launched = other.launched + 1,
                              !.task[other.launched + 1] = "fetching"]
    /\ UNCHANGED <<first, sExchanges>>

\* Goroutine k of the second call: p, e := s.fetchPrice(ctx, ex, pair) returns.
OtherFetchReturn(k, rsp) ==
    /\ other.task[k] = "fetching"
    /\ other' = [other EXCEPT !.out[k] = fetchPrice(sExchanges[k], other.pair, rsp),
                              !.task[k] = AfterFetch(fetchPrice(sExchanges[k], other.pair, rsp))]
    /\ sExchanges' = [sExchanges EXCEPT ![k] = AfterPriceURL(sExchanges[k], other.pair)]
    /\ UNCHANGED first

\* Mutant: the goroutines of the second call send on the channel of the
\* first call.
OtherPublishShared(k) ==
    /\ other.task[k] = "select"
    /\ Len(results) < ResultsCap
    /\ results' = Append(results, result(sExchanges[k], other.out[k]))
    /\ other' = [other EXCEPT !.task[k] = "published"]
    /\ UNCHANGED <<pc, pair, launched, task, resp, out, errors, i, cancelled, parentDone,
                   ret, consumed, responded, doneAt, sent, returnedAt, req, w, handler, urls,
                   sExchanges>>

\* Goroutine k of the second call: select, case results <- result{...}, on
\* the channel of its call.
OtherPublish(k) ==
    /\ other.task[k] = "select"
    /\ Len(other.results) < ResultsCap
    /\ other' = [other EXCEPT !.results = Append(other.results, result(sExchanges[k], other.out[k])),
                              !.task[k] = "published"]
    /\ UNCHANGED <<first, sExchanges>>

\* The derived context of the second call: ctx.Done() is closed by its
\* cancel() and by the end of the context of the second request.
OtherCtxDone == other.cancelled \/ other.parentDone

\* Goroutine k of the second call: select, case <-ctx.Done(), on the
\* context derived by its call.
OtherAbandon(k) ==
    /\ other.task[k] = "select"
    /\ OtherCtxDone
    /\ other' = [other EXCEPT !.task[k] = "abandoned"]
    /\ UNCHANGED <<first, sExchanges>>

\* The second call: r := <-results and the loop body.
OtherReceive ==
    /\ other.pc = "running"
    /\ other.i < LoopBound
    /\ other.launched = Len(exchanges)
    /\ other.results # <<>>
    /\ LET r == Head(other.results)
           errs == Append(other.errors, ErrMsg(r))
       IN  other' =
             IF IsError(r)
             THEN IF other.i + 1 < LoopBound
                  THEN [other EXCEPT !.results = Tail(other.results), !.errors = errs,
                                     !.i = other.i + 1]
                  ELSE [other EXCEPT !.results = Tail(other.results), !.errors = errs,
                                     !.i = other.i + 1, !.pc = "returned",
                                     !.ret = AggregateFailure(errs), !.cancelled = TRUE]
             ELSE [other EXCEPT !.results = Tail(other.results), !.pc = "returned",
                                !.ret = SuccessReturn(r), !.cancelled = TRUE]
    /\ UNCHANGED <<first, sExchanges>>

\* The context of the second request ends (its client went away).
OtherParentCancel ==
    /\ other.pc = "running"
    /\ ~other.parentDone
    /\ other' = [other EXCEPT !.parentDone = TRUE]
    /\ UNCHANGED <<first, sExchanges>>

NextTwo ==
    \/ \E method \in Methods : \E seg \in FirstSegments : \E details \in TwoDetails :
          HandleSpot(method, seg, details)
    \/ Launch
    \/ \E k \in Idx : FetchReturn(k, Answer(exchanges[k].Name, pair))
    \/ \E k \in Idx : Publish(k)
    \/ \E k \in Idx : Abandon(k)
    \/ Receive
    \/ ParentCancel
    \/ Respond
    \/ \E method \in Methods : \E seg \in TwoSegments : \E details \in TwoDetails :
          OtherHandleSpot(method, seg, details)
    \/ OtherLaunch
    \/ \E k \in Idx : OtherFetchReturn(k, Answer(exchanges[k].Name, other.pair))
    \/ \E k \in Idx : OtherPublish(k)
    \/ \E k \in Idx : OtherAbandon(k)
    \/ OtherReceive
    \/ OtherParentCancel
    \/ OtherRespond

SpecTwo == Init /\ [][NextTwo]_vars

\* The outcome goroutine k of the second call produced, as it is sent.
OtherProduced(k) == result(exchanges[k], other.out[k])

\* The outcomes the goroutines of the first call, of the second call, sent.
OwnOutcomes == {Produced(k) : k \in {h \in Idx : task[h] = "published"}}
OtherOutcomes == {OtherProduced(k) : k \in {h \in Idx : other.task[h] = "published"}}

\* The first call returned what its own goroutines produced for its pair.
FirstFromOwn ==
    /\ \A j \in 1..Len(consumed) :
          /\ consumed[j] \in OwnOutcomes
          /\ consumed[j].err.nil <=> pair = "BTCUSDT"
    /\ \A j \in 1..Len(results) : results[j] \in OwnOutcomes
    /\ pc = "returned" =>
          IF pair = "BTCUSDT"
          THEN \E r \in OwnOutcomes : ret = SuccessReturn(r)
          ELSE /\ ret = AggregateFailure(errors)
               /\ Len(errors) = Len(exchanges)
               /\ \A j \in 1..Len(errors) : \E r \in OwnOutcomes : errors[j] = ErrMsg(r)

\* The second call returned what its own goroutines produced for its pair.
SecondFromOwn ==
    /\ \A j \in 1..Len(other.results) : other.results[j] \in OtherOutcomes
    /\ \A j \in 1..Len(other.errors) : \E r \in OtherOutcomes : other.errors[j] = ErrMsg(r)
    /\ other.pc = "returned" =>
          IF other.pair = "BTCUSDT"
          THEN \E r \in OtherOutcomes : other.ret = SuccessReturn(r)
          ELSE /\ other.ret = AggregateFailure(other.errors)
               /\ Len(other.errors) = Len(exchanges)

\* A call's derived context is cancelled by that call's return alone, and a
\* goroutine abandons only under the context of its own call: neither the
\* cancel of one call nor the end of one request's context reaches the
\* goroutines of the other.
OwnCancellation ==
    /\ cancelled <=> pc = "returned"
    /\ other.cancelled <=> other.pc = "returned"
    /\ \A k \in Idx : task[k] = "abandoned" => CtxDone
    /\ \A k \in Idx : other.task[k] = "abandoned" => OtherCtxDone

\* Each request is answered from its own pair, details and result.
OwnResponse ==
    /\ (handler = "done" /\ pc = "returned") =>
          w = <<Render(req.details = "true", ToUpper(req.seg), ret)>>
    /\ (other.handler = "done" /\ other.pc = "returned") =>
          other.w = <<Render(other.req.details = "true", ToUpper(other.req.seg), other.ret)>>
    /\ Len(w) <= 1 /\ Len(other.w) <= 1

\* The second call waits on its channel and none of its goroutines is left
\* to publish.
OtherStuck ==
    /\ other.pc = "running"
    /\ other.launched = Len(exchanges)
    /\ other.results = <<>>
    /\ \A k \in Idx : other.task[k] \in {"published", "abandoned"}

\* A handler that waits for ever on its channel holds up no other request:
\* the other request can arrive, and can be answered once its call returned.
HangIsOwn ==
    /\ Stuck =>
          /\ other.handler = "idle" => ENABLED OtherHandleSpot(MethodGet, "btcusdt", "true")
          /\ (other.handler = "race" /\ other.pc = "returned") => ENABLED OtherRespond
    /\ OtherStuck =>
          /\ handler = "idle" => ENABLED HandleSpot(MethodGet, "INVALID", "true")
          /\ (handler = "race" /\ pc = "returned") => ENABLED Respond

\* C34: two requests that run interleaved are isolated: each is answered
\* from a result computed from the outcomes of the goroutines launched for
\* it, and no outcome, error entry or cancellation of one request appears in
\* or changes what the other returns.
C34_RequestsIsolated ==
    FirstFromOwn /\ SecondFromOwn /\ OwnCancellation /\ OwnResponse /\ HangIsOwn

\* Both requests are answered under live contexts, the first with the
\* aggregate failure for INVALID and the second with the price for BTCUSDT:
\* a goroutine of the second abandoned under its cancel, and every goroutine
\* of the first published.
C34_Witness ==
    /\ handler = "done" /\ pc = "returned" /\ pair = "INVALID" /\ ~parentDone
    /\ w[1].status = StatusServiceUnavailable
    /\ Len(ret.err.errors) = Len(exchanges)
    /\ other.handler = "done" /\ other.pc = "returned" /\ other.pair = "BTCUSDT"
    /\ ~other.parentDone
    /\ other.w[1].status = StatusOK
    /\ \E k \in Idx : other.task[k] = "abandoned"
    /\ \A k \in Idx : task[k] = "published"

\* The first request waits for ever on its empty channel, and the second
\* has been answered with a price.
C34_HangWitness ==
    /\ Stuck
    /\ other.handler = "done"
    /\ other.pc = "returned"
    /\ other.ret.err.nil

\* The second request waits for ever on its empty channel, and the first
\* has been answered.
C34_OtherHangWitness ==
    /\ OtherStuck
    /\ other.parentDone
    /\ handler = "done"
    /\ pc = "returned"

\* A step of the goroutine of exchange k of the first request, of the second
\* request: the return of its fetchPrice, its send, or its return through
\* ctx.Done().
AdapterStep(k) == task[k] \in {"fetching", "select"} /\ task'[k] # task[k]
OtherAdapterStep(k) == other.task[k] \in {"fetching", "select"} /\ other'.task[k] # other.task[k]

\* What a goroutine of a request shares with the coordinator and the other
\* goroutines and does not write: the coordinator's variables, the context,
\* the pair, the request and its response.
NotWrittenByAdapters == <<pc, pair, launched, errors, i, cancelled, parentDone, ret, req, w, handler>>
OtherNotWrittenByAdapters ==
    {"pc", "pair", "launched", "errors", "i", "cancelled", "parentDone", "ret", "req", "w", "handler"}

\* C30: no step of a request changes s.exchanges or a field of an Exchange:
\* whatever requests have run, one after the other or at the same time, and
\* at any point of their races, the exchanges are those server.New created;
\* and a goroutine of a request writes its own variables and the completion
\* channel of its call only.
C30_ExchangesReadOnly ==
    /\ [](sExchanges = <<New(BINANCE), New(BYBIT), New(BITGET)>>)
    /\ [][/\ sExchanges' = sExchanges
          /\ \A k \in Idx : AdapterStep(k) =>
                /\ UNCHANGED NotWrittenByAdapters
                /\ UNCHANGED other
                /\ \A h \in Idx \ {k} :
                      /\ task'[h] = task[h] /\ resp'[h] = resp[h]
                      /\ out'[h] = out[h] /\ urls'[h] = urls[h]
                /\ results' \in {results, Append(results, result(exchanges[k], out[k]))}
          /\ \A k \in Idx : OtherAdapterStep(k) =>
                /\ UNCHANGED first
                /\ \A f \in OtherNotWrittenByAdapters : other'[f] = other[f]
                /\ \A h \in Idx \ {k} : other'.task[h] = other.task[h] /\ other'.out[h] = other.out[h]
                /\ other'.results \in {other.results,
                                       Append(other.results, result(exchanges[k], other.out[k]))}]_vars

\* Two requests are over, each goroutine of both has built its URL from its
\* Exchange and run to its end, and the exchanges are as created.
C30_Witness ==
    /\ Handled /\ pc = "returned"
    /\ other.handler = "done" /\ other.pc = "returned"
    /\ \A k \in Idx : task[k] \in {"published", "abandoned"} /\ urls[k] = PriceURL(exchanges[k], pair)
    /\ \A k \in Idx : other.task[k] \in {"published", "abandoned"}
    /\ sExchanges = exchanges

====
